---- MODULE Spec2Model ----
(***************************************************************************)
(* A model of lib-src/emacsclient.c: the wire codec (quote_argument,       *)
(* unquote_argument), the buffered sender (send_to_emacs), endpoint        *)
(* resolution (set_socket), and main's command stream and receive loop.    *)
(*                                                                         *)
(* A C string is a sequence of one-character strings.  NUL is the          *)
(* terminator as it sits in memory; NULL is the null pointer.              *)
(***************************************************************************)
EXTENDS Integers, Sequences, FiniteSets, TLC

VARIABLES
  pc,               \* where the process is
  ending,           \* how the process ended ("return" from main, "exit",
                    \* "exec" of another program, "undefined" behaviour)
                    \* and its status, or "running"
  \* ---- file-scope variables of emacsclient.c
  nowait, quiet, suppress_output, eval, create_frame,
  display, alt_display, parent_id, tty, alternate_editor,
  socket_name, server_file, tramp_prefix, emacs_pid, frame_parameters,
  emacs_socket,
  fds,              \* the socket descriptors the process holds open
  \* ---- send_to_emacs's statics (sblen is Len(send_buffer))
  send_buffer,
  \* ---- main's locals
  rl, skiplf, exit_status, string,
  recvs,            \* the results of the recv calls that have returned
  \* ---- the process's inputs: argv after the options, the environment,
  \*      the file system, the terminal, standard input, and the host
  world,
  \* ---- what the process did: send() calls, standard output and error,
  \*      dispatched messages, resolution attempts
  writes, stdout, stderr, dispatched, attempts,
  \* ---- the number of send_to_emacs calls made, and the last call's
  \*      arguments and starting state (transport specification)
  calls,
  \* ---- one codec round (codec specification)
  codec,
  \* ---- send_to_emacs step by step under signals (signal specification):
  \*      its statics as an array and a fill length, main's activation of
  \*      it, and what the handlers did
  sig

optVars == <<nowait, quiet, suppress_output, eval, create_frame, display,
             alt_display, parent_id, tty, alternate_editor, socket_name,
             server_file, tramp_prefix, emacs_pid, frame_parameters>>
mainVars == <<rl, skiplf, exit_status, string>>
logVars == <<stdout, stderr, dispatched, attempts>>
vars == <<pc, ending, optVars, emacs_socket, fds, send_buffer, mainVars,
          recvs, world, writes, logVars, calls, codec, sig>>

----------------------------------------------------------------------------
(* Characters and strings *)

NUL == "NUL"
NULL == <<"NULL">>
LF == "\n"

Min(a, b) == IF a < b THEN a ELSE b

Last(s) == s[Len(s)]

RECURSIVE Flatten(_)
Flatten(ss) == IF ss = <<>> THEN <<>> ELSE Head(ss) \o Flatten(Tail(ss))

\* The C string that starts at index i of memory mem: up to the first NUL.
RECURSIVE CStr(_, _)
CStr(mem, i) ==
  IF i > Len(mem) \/ mem[i] = NUL THEN <<>>
  ELSE <<mem[i]>> \o CStr(mem, i + 1)

\* A comparison that leaves out the last character of the prefix.
strprefix_keyword_only(prefix, str) ==
  /\ Len(prefix) - 1 <= Len(str)
  /\ SubSeq(str, 1, Len(prefix) - 1) = SubSeq(prefix, 1, Len(prefix) - 1)

\* strprefix (prefix, string)
strprefix(prefix, str) ==
  /\ Len(prefix) <= Len(str)
  /\ SubSeq(str, 1, Len(prefix)) = prefix

isdigit(c) == c \in {"0", "1", "2", "3", "4", "5", "6", "7", "8", "9"}

----------------------------------------------------------------------------
(* Wire codec *)

\* quote_argument's loop from read position p: the copy it builds.
RECURSIVE quote_from(_, _)
quote_from(str, p) ==
  IF p > Len(str) THEN <<>>
  ELSE (IF str[p] = " " THEN <<"&", "_">>
        ELSE IF str[p] = LF THEN <<"&", "n">>
        ELSE IF str[p] = "&" \/ (str[p] = "-" /\ p = 1) THEN <<"&", str[p]>>
        ELSE <<str[p]>>) \o quote_from(str, p + 1)

\* A quoting that leaves '&' unescaped.
RECURSIVE quote_amp_unescaped(_)
quote_amp_unescaped(str) ==
  IF str = <<>> THEN <<>>
  ELSE (IF Head(str) = " " THEN <<"&", "_">>
        ELSE IF Head(str) = LF THEN <<"&", "n">>
        ELSE <<Head(str)>>) \o quote_amp_unescaped(Tail(str))

\* quote_argument (s, str): the copy handed to send_to_emacs.
quote_argument(str) == quote_from(str, 1)

\* The character unquote_argument stores for the one that follows '&'.
unquote_char(c) ==
  IF c = "&" THEN "&"
  ELSE IF c = "_" THEN " "
  ELSE IF c = "n" THEN LF
  ELSE IF c = "-" THEN "-"
  ELSE c

\* unquote_argument's loop over memory m, read pointer p, write pointer q.
\* A read past the end of the array stops the loop with oob set.
RECURSIVE unquote_loop(_, _, _)
unquote_loop(m, p, q) ==
  IF p > Len(m) THEN [mem |-> m, oob |-> TRUE]
  ELSE IF m[p] = NUL THEN [mem |-> [m EXCEPT ![q] = NUL], oob |-> FALSE]
  ELSE IF m[p] = "&"
    THEN IF p + 1 > Len(m) THEN [mem |-> m, oob |-> TRUE]
         ELSE LET c == unquote_char(m[p + 1])
                  m1 == [m EXCEPT ![p + 1] = c]
              IN unquote_loop([m1 EXCEPT ![q] = c], p + 2, q + 1)
    ELSE unquote_loop([m EXCEPT ![q] = m[p]], p + 1, q + 1)

\* unquote_argument (str), str an index into memory m.
unquote_argument(m, str) == unquote_loop(m, str, str)

\* decode as the program computes it: the text is laid out in memory with
\* its terminator and unquoted in place.
decode(text) == CStr(unquote_argument(text \o <<NUL>>, 1).mem, 1)

----------------------------------------------------------------------------
(* Transport: send_to_emacs *)

SEND_BUFFER_SIZE == 4096

\* What send (s, send_buffer, n, 0) returns when the socket takes at most
\* room bytes of a request; a negative room is a failed send.
send_result(n, room) == IF room < 0 THEN -1 ELSE Min(n, room)

\* A flush test that fires on a newline anywhere in the buffer.
flush_on_any_newline(buf) ==
  \/ Len(buf) = SEND_BUFFER_SIZE
  \/ \E i \in 1..Len(buf) : buf[i] = LF

\* send_to_emacs's test for sending the buffer.
flush_due(buf) ==
  \/ Len(buf) = SEND_BUFFER_SIZE
  \/ (0 < Len(buf) /\ buf[Len(buf)] = LF)

\* A loop that forgets what send () did not take.
RECURSIVE send_loop_drops_remainder(_, _, _)
send_loop_drops_remainder(tr, data, room) ==
  IF data = <<>> \/ tr.failed THEN tr
  ELSE LET part == Min(Len(data), SEND_BUFFER_SIZE - Len(tr.buf))
           buf == tr.buf \o SubSeq(data, 1, part)
           rest == SubSeq(data, part + 1, Len(data))
       IN IF flush_due(buf)
            THEN LET sent == send_result(Len(buf), room)
                     w == Append(tr.writes, [data |-> buf, sent |-> sent])
                 IN IF sent < 0
                      THEN [buf |-> buf, writes |-> w, failed |-> TRUE]
                      ELSE send_loop_drops_remainder(
                             [buf |-> <<>>, writes |-> w, failed |-> FALSE],
                             rest, room)
            ELSE send_loop_drops_remainder([tr EXCEPT !.buf = buf], rest,
                                           room)

\* send_to_emacs's loop.  tr is the transport: buf (send_buffer, with sblen
\* its length), writes (the send() calls made: the bytes offered and the
\* result), failed (send returned a negative result and fail () was called).
RECURSIVE send_loop(_, _, _)
send_loop(tr, data, room) ==
  IF data = <<>> \/ tr.failed THEN tr
  ELSE LET part == Min(Len(data), SEND_BUFFER_SIZE - Len(tr.buf))
           buf == tr.buf \o SubSeq(data, 1, part)
           rest == SubSeq(data, part + 1, Len(data))
       IN IF flush_due(buf)
            THEN LET sent == send_result(Len(buf), room)
                     w == Append(tr.writes, [data |-> buf, sent |-> sent])
                 IN IF sent < 0
                      THEN [buf |-> buf, writes |-> w, failed |-> TRUE]
                      ELSE send_loop([buf |-> SubSeq(buf, sent + 1, Len(buf)),
                                      writes |-> w, failed |-> FALSE],
                                     rest, room)
            ELSE send_loop([tr EXCEPT !.buf = buf], rest, room)

\* send_to_emacs (s, data)
send_to_emacs(tr, data, room) == send_loop(tr, data, room)

\* Consecutive send_to_emacs calls, one per element of pieces.
RECURSIVE send_all(_, _, _)
send_all(tr, pieces, room) ==
  IF pieces = <<>> THEN tr
  ELSE send_all(send_to_emacs(tr, Head(pieces), room), Tail(pieces), room)

\* The bytes the socket has accepted, in order.
RECURSIVE accepted(_)
accepted(w) ==
  IF w = <<>> THEN <<>>
  ELSE accepted(SubSeq(w, 1, Len(w) - 1))
       \o (IF Last(w).sent > 0 THEN SubSeq(Last(w).data, 1, Last(w).sent)
           ELSE <<>>)

----------------------------------------------------------------------------
(* The string literals of main and set_tcp_socket *)

S_auth == <<"-", "a", "u", "t", "h", " ">>
S_env == <<"-", "e", "n", "v", " ">>
S_dir == <<"-", "d", "i", "r", " ">>
S_nowait == <<"-", "n", "o", "w", "a", "i", "t", " ">>
S_current_frame ==
  <<"-", "c", "u", "r", "r", "e", "n", "t", "-", "f", "r", "a", "m", "e", " ">>
S_display == <<"-", "d", "i", "s", "p", "l", "a", "y", " ">>
S_parent_id == <<"-", "p", "a", "r", "e", "n", "t", "-", "i", "d", " ">>
S_frame_parameters ==
  <<"-", "f", "r", "a", "m", "e", "-", "p", "a", "r", "a", "m", "e", "t", "e",
    "r", "s", " ">>
S_tty == <<"-", "t", "t", "y", " ">>
S_window_system ==
  <<"-", "w", "i", "n", "d", "o", "w", "-", "s", "y", "s", "t", "e", "m", " ">>
S_eval == <<"-", "e", "v", "a", "l", " ">>
S_position == <<"-", "p", "o", "s", "i", "t", "i", "o", "n", " ">>
S_file == <<"-", "f", "i", "l", "e", " ">>
S_slash == <<"/">>
S_space == <<" ">>
S_suspend == <<"-", "s", "u", "s", "p", "e", "n", "d", " ", LF>>
S_resume == <<"-", "r", "e", "s", "u", "m", "e", " ", LF>>
S_newline == <<LF>>

M_emacs_pid == <<"-", "e", "m", "a", "c", "s", "-", "p", "i", "d", " ">>
M_window_system_unsupported ==
  <<"-", "w", "i", "n", "d", "o", "w", "-", "s", "y", "s", "t", "e", "m", "-",
    "u", "n", "s", "u", "p", "p", "o", "r", "t", "e", "d", " ">>
M_print == <<"-", "p", "r", "i", "n", "t", " ">>
M_print_nonl == <<"-", "p", "r", "i", "n", "t", "-", "n", "o", "n", "l", " ">>
M_error == <<"-", "e", "r", "r", "o", "r", " ">>
M_suspend == <<"-", "s", "u", "s", "p", "e", "n", "d", " ">>

T_waiting ==
  <<"W", "a", "i", "t", "i", "n", "g", " ", "f", "o", "r", " ", "E", "m", "a",
    "c", "s", ".", ".", ".">>
T_error == <<"*", "E", "R", "R", "O", "R", "*", ":", " ">>
T_unknown ==
  <<"*", "E", "R", "R", "O", "R", "*", ":", " ", "U", "n", "k", "n", "o", "w",
    "n", " ", "m", "e", "s", "s", "a", "g", "e", ":", " ">>
T_eterm == <<"e", "t", "e", "r", "m">>
T_server == <<"s", "e", "r", "v", "e", "r">>

AUTH_KEY_LENGTH == 64

----------------------------------------------------------------------------
(* decode_options: the file-scope option variables after the command line *)
(* o (the options given), the DISPLAY variable and the build's default    *)
(* window system (NS_IMPL_COCOA "ns", HAVE_NTGUI "w32", otherwise none).  *)

decode_options(o, env_DISPLAY, build_alt) ==
  LET cf == o.t \/ o.c \/ o.p # NULL
      try_env == cf /\ ~o.t /\ o.d = NULL
      alt1 == IF try_env THEN build_alt ELSE NULL
      d1 == IF try_env THEN env_DISPLAY ELSE o.d
      d2 == IF d1 = NULL THEN alt1 ELSE d1
      alt2 == IF d1 = NULL THEN NULL ELSE alt1
      d3 == IF d2 # NULL /\ d2 = <<>> THEN NULL ELSE d2
  IN [nowait |-> o.n, quiet |-> o.q, suppress_output |-> o.u, eval |-> o.e,
      create_frame |-> cf, display |-> d3, alt_display |-> alt2,
      parent_id |-> o.p, tty |-> (o.t \/ (cf /\ d3 = NULL)),
      alternate_editor |-> o.a, socket_name |-> o.s, server_file |-> o.f,
      tramp_prefix |-> o.T, frame_parameters |-> o.F]

----------------------------------------------------------------------------
(* find_tty and the command stream *)

\* find_tty (&tty_type, &tty_name, noabort): "found", "none" (returned
\* false) or "fail" (called fail ()), for the terminal of world w.
find_tty(w, noabort) ==
  IF w.tty_name = NULL \/ w.TERM = NULL
     \/ (w.inside_term /\ strprefix(T_eterm, w.TERM))
    THEN (IF noabort THEN "none" ELSE "fail")
    ELSE "found"

\* file_name_absolute_p (filename), not WINDOWSNT
file_name_absolute_p(filename) ==
  filename # NULL /\ filename # <<>> /\ filename[1] = "/"

\* main, lines 1790-1797: the argument is '+' followed only by digits and
\* colons.
RECURSIVE only_digits_colons(_, _)
only_digits_colons(arg, p) ==
  IF p > Len(arg) THEN TRUE
  ELSE IF isdigit(arg[p]) \/ arg[p] = ":" THEN only_digits_colons(arg, p + 1)
  ELSE FALSE

\* A test that takes every argument starting with '+' for a position.
plus_is_position(arg) == arg # <<>> /\ arg[1] = "+"

is_position(arg) ==
  arg # <<>> /\ arg[1] = "+" /\ only_digits_colons(arg, 2)

\* main, lines 1706-1722: the send_to_emacs calls up to the retry label.
RECURSIVE env_pieces(_)
env_pieces(environ) ==
  IF environ = <<>> THEN <<>>
  ELSE <<S_env, quote_argument(Head(environ)), S_space>>
       \o env_pieces(Tail(environ))

dir_pieces(w) ==
  (IF create_frame THEN env_pieces(w.environ) ELSE <<>>)
  \o <<S_dir>>
  \o (IF tramp_prefix # NULL THEN <<quote_argument(tramp_prefix)>> ELSE <<>>)
  \o <<quote_argument(w.cwd), S_slash, S_space>>

\* A stream head that never says -current-frame.
frame_pieces_without_current_frame ==
  (IF nowait THEN <<S_nowait>> ELSE <<>>)
  \o (IF display # NULL
        THEN <<S_display, quote_argument(display), S_space>> ELSE <<>>)

\* main, lines 1725-1750: from the retry label to the tty block.
frame_pieces ==
  (IF nowait THEN <<S_nowait>> ELSE <<>>)
  \o (IF ~create_frame THEN <<S_current_frame>> ELSE <<>>)
  \o (IF display # NULL
        THEN <<S_display, quote_argument(display), S_space>> ELSE <<>>)
  \o (IF parent_id # NULL
        THEN <<S_parent_id, quote_argument(parent_id), S_space>> ELSE <<>>)
  \o (IF frame_parameters # NULL /\ create_frame
        THEN <<S_frame_parameters, quote_argument(frame_parameters), S_space>>
        ELSE <<>>)

\* main, lines 1755-1770: "found", "none", "fail", or "skipped".
tty_outcome(w) ==
  IF create_frame \/ ~eval THEN find_tty(w, ~tty) ELSE "skipped"

tty_pieces(w) ==
  IF tty_outcome(w) = "found"
    THEN <<S_tty, quote_argument(w.tty_name), S_space,
           quote_argument(w.TERM), S_space>>
    ELSE <<>>

\* main, lines 1777-1831: one argument of the command line.
arg_pieces(arg) ==
  IF eval THEN <<S_eval, quote_argument(arg), S_space>>
  ELSE IF is_position(arg) THEN <<S_position, quote_argument(arg), S_space>>
  ELSE <<S_file>>
       \o (IF tramp_prefix # NULL /\ file_name_absolute_p(arg)
             THEN <<quote_argument(tramp_prefix)>> ELSE <<>>)
       \o <<quote_argument(arg), S_space>>

RECURSIVE args_pieces(_)
args_pieces(argv) ==
  IF argv = <<>> THEN <<>>
  ELSE arg_pieces(Head(argv)) \o args_pieces(Tail(argv))

\* main, lines 1836-1841: one -eval per line of standard input.
RECURSIVE stdin_pieces(_)
stdin_pieces(lines) ==
  IF lines = <<>> THEN <<>>
  ELSE <<S_eval, quote_argument(Head(lines))>> \o stdin_pieces(Tail(lines))

\* A stream tail that asks for a window-system frame whenever a frame is
\* created, terminal mode or not.
tail_pieces_window_system_always(w) ==
  (IF create_frame THEN <<S_window_system>> ELSE <<>>)
  \o (IF w.argv # <<>> THEN args_pieces(w.argv)
      ELSE IF eval THEN stdin_pieces(w.stdin) \o <<S_space>>
      ELSE <<>>)
  \o <<S_newline>>

\* main, lines 1772-1844: after the tty block, to the final newline.
tail_pieces(w) ==
  (IF create_frame /\ ~tty THEN <<S_window_system>> ELSE <<>>)
  \o (IF w.argv # <<>> THEN args_pieces(w.argv)
      ELSE IF eval THEN stdin_pieces(w.stdin) \o <<S_space>>
      ELSE <<>>)
  \o <<S_newline>>

----------------------------------------------------------------------------
(* main's receive loop *)

INVALID_SOCKET == -1
EXIT_SUCCESS == 0
EXIT_FAILURE == 1

\* strchr (p, '\n') in memory m: the index of the newline, 0 for NULL.
RECURSIVE strchr_nl(_, _)
strchr_nl(m, p) ==
  IF p > Len(m) \/ m[p] = NUL THEN 0
  ELSE IF m[p] = LF THEN p
  ELSE strchr_nl(m, p + 1)

digit_value(c) ==
  CASE c = "0" -> 0 [] c = "1" -> 1 [] c = "2" -> 2 [] c = "3" -> 3
    [] c = "4" -> 4 [] c = "5" -> 5 [] c = "6" -> 6 [] c = "7" -> 7
    [] c = "8" -> 8 [] c = "9" -> 9

\* strtol (s, NULL, 10) for the unsigned decimal numbers the host sends:
\* leading spaces skipped, then digits.
RECURSIVE strtol_digits(_, _, _)
strtol_digits(s, i, acc) ==
  IF i > Len(s) \/ ~isdigit(s[i]) THEN acc
  ELSE strtol_digits(s, i + 1, acc * 10 + digit_value(s[i]))

RECURSIVE strtol(_, _)
strtol(s, i) ==
  IF i <= Len(s) /\ s[i] = " " THEN strtol(s, i + 1)
  ELSE strtol_digits(s, i, 0)

\* What printf prints for &"\n..."[skiplf]: the leading newline is skipped
\* when skiplf is true.
lead(skip) == IF skip THEN <<>> ELSE <<LF>>

\* skiplf after printing str (lines 1911-1912, 1923-1924, 1934-1935).
skiplf_after(skip, str) == IF str # <<>> THEN Last(str) = LF ELSE skip

\* A loop state d holds what the loop body reads and writes: mem (string),
\* out and err (standard output and error), skiplf, exit_status, emacs_pid,
\* display, alt_display, nowait, tty, disp (the messages dispatched, each
\* with the branch taken and the line as the branch saw it), goto (the
\* body left by goto retry), oob (a read ran past the end of string), rl
\* (the length of the chunk).

\* The record of one dispatched message: the branch taken, the line as the
\* branch saw it, the bytes of the chunk that follow the line, whether a
\* newline of the chunk ended the line (complete), and the exit status, the
\* retry state, the output and skiplf the branch started from.
entry(d, p, kind) ==
  LET line == CStr(d.mem, p)
      t == p + Len(line)
  IN [kind |-> kind, line |-> line,
      rest |-> IF t > d.rl THEN 0 ELSE d.rl - t,
      complete |-> t <= d.rl,
      exit_status |-> d.exit_status, display |-> d.display,
      alt_display |-> d.alt_display, tty |-> d.tty, nowait |-> d.nowait,
      out |-> d.out, err |-> d.err, skiplf |-> d.skiplf]

\* The -print and -print-nonl branches.
print_branch(d, p, kind, off, nonl) ==
  IF suppress_output
    THEN [d EXCEPT !.disp = Append(@, entry(d, p, kind))]
    ELSE LET u == unquote_argument(d.mem, p + off)
             str == CStr(u.mem, p + off)
         IN [d EXCEPT !.mem = u.mem, !.oob = u.oob,
                      !.out = @ \o (IF nonl THEN <<>> ELSE lead(d.skiplf))
                                \o str,
                      !.skiplf = skiplf_after(@, str),
                      !.disp = Append(@, entry(d, p, kind))]

\* An -error branch that reports the error and leaves exit_status alone.
error_branch_status_kept(d, p) ==
  LET u == unquote_argument(d.mem, p + Len(M_error))
      str == CStr(u.mem, p + Len(M_error))
  IN [d EXCEPT !.mem = u.mem, !.oob = u.oob,
               !.out = @ \o lead(d.skiplf),
               !.err = @ \o T_error \o str,
               !.skiplf = skiplf_after(@, str),
               !.disp = Append(@, entry(d, p, "error"))]

\* The -error branch (lines 1927-1937).
error_branch(d, p) ==
  LET u == unquote_argument(d.mem, p + Len(M_error))
      str == CStr(u.mem, p + Len(M_error))
  IN [d EXCEPT !.mem = u.mem, !.oob = u.oob,
               !.out = @ \o lead(d.skiplf),
               !.err = @ \o T_error \o str,
               !.skiplf = skiplf_after(@, str),
               !.exit_status = EXIT_FAILURE,
               !.disp = Append(@, entry(d, p, "error"))]

\* A retry branch that forces terminal mode even when an alternate display
\* is there.
retry_branch_forces_tty(d, p) ==
  [d EXCEPT !.display = IF d.alt_display # NULL THEN d.alt_display ELSE @,
            !.alt_display = NULL,
            !.nowait = FALSE,
            !.tty = TRUE,
            !.goto = TRUE,
            !.disp = Append(@, entry(d, p, "window-system-unsupported"))]

\* A retry branch that forces terminal mode and leaves nowait as it was.
retry_branch_keeps_nowait(d, p) ==
  [d EXCEPT !.display = IF d.alt_display # NULL THEN d.alt_display ELSE @,
            !.alt_display = NULL,
            !.tty = IF d.alt_display # NULL THEN @ ELSE TRUE,
            !.goto = TRUE,
            !.disp = Append(@, entry(d, p, "window-system-unsupported"))]

\* The -window-system-unsupported branch (lines 1886-1903).
retry_branch(d, p) ==
  [d EXCEPT !.display = IF d.alt_display # NULL THEN d.alt_display ELSE @,
            !.alt_display = NULL,
            !.nowait = IF d.alt_display # NULL THEN @ ELSE FALSE,
            !.tty = IF d.alt_display # NULL THEN @ ELSE TRUE,
            !.goto = TRUE,
            !.disp = Append(@, entry(d, p, "window-system-unsupported"))]

\* An unknown-message branch that treats the message as fatal.
unknown_branch_sets_failure(d, p) ==
  [d EXCEPT !.out = @ \o lead(d.skiplf) \o T_unknown \o CStr(d.mem, p)
                      \o <<LF>>,
            !.skiplf = TRUE,
            !.exit_status = EXIT_FAILURE,
            !.disp = Append(@, entry(d, p, "unknown"))]

\* The branch for an unknown message (lines 1948-1953).
unknown_branch(d, p) ==
  [d EXCEPT !.out = @ \o lead(d.skiplf) \o T_unknown \o CStr(d.mem, p)
                      \o <<LF>>,
            !.skiplf = TRUE,
            !.disp = Append(@, entry(d, p, "unknown"))]

\* The loop body's if-chain for the message at p (lines 1881-1953).
dispatch(d, p) ==
  LET line == CStr(d.mem, p)
  IN IF strprefix(M_emacs_pid, line)
       THEN [d EXCEPT !.emacs_pid = strtol(line, Len(M_emacs_pid)),
                      !.disp = Append(@, entry(d, p, "emacs-pid"))]
     ELSE IF strprefix(M_window_system_unsupported, line)
       THEN retry_branch(d, p)
     ELSE IF strprefix(M_print, line)
       THEN print_branch(d, p, "print", Len(M_print), FALSE)
     ELSE IF strprefix(M_print_nonl, line)
       THEN print_branch(d, p, "print-nonl", Len(M_print_nonl), TRUE)
     ELSE IF strprefix(M_error, line)
       THEN error_branch(d, p)
     ELSE IF strprefix(M_suspend, line)
       THEN [d EXCEPT !.out = @ \o lead(d.skiplf),
                      !.skiplf = TRUE,
                      !.disp = Append(@, entry(d, p, "suspend"))]
     ELSE unknown_branch(d, p)

\* A loop that leaves the rest of the chunk alone once a message has set
\* exit_status.
RECURSIVE lines_loop_stops_at_error(_, _)
lines_loop_stops_at_error(d, p) ==
  LET nl == strchr_nl(d.mem, p)
      m1 == IF nl # 0 THEN [d.mem EXCEPT ![nl] = NUL] ELSE d.mem
      end_p == IF nl # 0 THEN nl + 1 ELSE 0
      d1 == dispatch([d EXCEPT !.mem = m1], p)
  IN IF d1.goto \/ d1.oob \/ d1.exit_status # EXIT_SUCCESS THEN d1
     ELSE IF end_p # 0 /\ d1.mem[end_p] # NUL
       THEN lines_loop_stops_at_error(d1, end_p)
     ELSE d1

\* The loop over the messages of one chunk (lines 1874-1954), body at p.
RECURSIVE lines_loop(_, _)
lines_loop(d, p) ==
  LET nl == strchr_nl(d.mem, p)
      m1 == IF nl # 0 THEN [d.mem EXCEPT ![nl] = NUL] ELSE d.mem
      end_p == IF nl # 0 THEN nl + 1 ELSE 0
      d1 == dispatch([d EXCEPT !.mem = m1], p)
  IN IF d1.goto \/ d1.oob THEN d1
     ELSE IF end_p # 0 /\ d1.mem[end_p] # NUL THEN lines_loop(d1, end_p)
     ELSE d1

----------------------------------------------------------------------------
(* Endpoint resolution *)

\* The world w answers the system calls.  For resolution: socket_ok
\* (socket () succeeds), stat, fits and connect_ok per candidate path (the
\* name used verbatim, the path under the effective uid's directory, the
\* path under the directory of the uid that LOGNAME or USER names), pw (what
\* getpwnam finds for LOGNAME or USER), cfg (the server file),
\* tcp_connect_ok.  stat is the owner of the file or the error of stat ();
\* fits says that the path is shorter than sun_path.
\* A resolution result: s (the socket or INVALID_SOCKET), how ("return",
\* "exit": the function ended the process with exit (EXIT_FAILURE), "fail":
\* it called fail ()), log (the attempts made), fds (the open descriptors),
\* tr (the transport).

has_slash(name) == \E i \in 1..Len(name) : name[i] = "/" \/ name[i] = "\\"

\* A socket_status that does not look at the owner.
socket_status_ignores_owner(w, path) ==
  IF w.stat[path] \in {"ENOENT", "EACCES"} THEN 2 ELSE 0

\* socket_status (name)
socket_status(w, path) ==
  IF w.stat[path] \in {"ENOENT", "EACCES"} THEN 2
  ELSE IF w.stat[path] # "euid" THEN 1
  ELSE 0

new_fd(opened) == CHOOSE n \in 3..(3 + Cardinality(opened)) : n \notin opened

\* A second lookup made only when the first path has another owner.
su_lookup_only_if_wrong_owner(sock_status, tmpdir, w) ==
  sock_status = 1 /\ tmpdir /\ w.pw = "other"

\* A second lookup made only when the first path cannot be stat'ed.
su_lookup_only_if_missing(sock_status, tmpdir, w) ==
  sock_status = 2 /\ tmpdir /\ w.pw = "other"

\* set_local_socket, lines 1283-1299: the socket is looked for under the
\* directory of the uid that LOGNAME or USER names.
su_lookup(sock_status, tmpdir, w) ==
  sock_status # 0 /\ tmpdir /\ w.pw = "other"

\* The entry of the log for socket_status (path) in world w.
stat_entry(w, path) ==
  [op |-> "stat", kind |-> "local", path |-> path, found |-> w.stat[path],
   status |-> socket_status(w, path)]

\* set_local_socket (local_socket_name)
set_local_socket(name, w, opened, tr) ==
  IF ~w.socket_ok
    THEN [s |-> INVALID_SOCKET, how |-> "return", fds |-> opened, tr |-> tr,
          log |-> <<[op |-> "socket", kind |-> "local", ok |-> FALSE]>>]
    ELSE
      LET s == new_fd(opened)
          tmpdir == ~has_slash(name)
          path1 == IF tmpdir THEN "tmp_euid" ELSE "verbatim"
          st1 == socket_status(w, path1)
          second == su_lookup(st1, tmpdir, w)
          path == IF second THEN "tmp_pwuid" ELSE path1
          st == IF second THEN socket_status(w, path) ELSE st1
          log0 == <<[op |-> "socket", kind |-> "local", ok |-> TRUE]>>
          log1 == Append(log0, stat_entry(w, path1))
          log2 == IF second THEN Append(log1, stat_entry(w, path)) ELSE log1
          ended(how, log) ==
            [s |-> INVALID_SOCKET, how |-> how, fds |-> opened \cup {s},
             tr |-> tr, log |-> log]
      IN IF ~w.fits[path1]
           THEN ended("fail", Append(log0, [op |-> "too long",
                                            kind |-> "local",
                                            path |-> path1]))
         ELSE IF second /\ ~w.fits[path]
           THEN ended("exit", Append(log1, [op |-> "too long",
                                            kind |-> "local",
                                            path |-> path]))
         ELSE IF st # 0
           THEN ended("return", log2)
         ELSE [s |-> IF w.connect_ok[path] THEN s ELSE INVALID_SOCKET,
               how |-> "return", fds |-> opened \cup {s}, tr |-> tr,
               log |-> Append(log2, [op |-> "connect", kind |-> "local",
                                     path |-> path,
                                     ok |-> w.connect_ok[path]])]

\* An authentication preamble without its keyword.
auth_pieces_without_keyword(w) == <<CStr(w.token \o <<NUL>>, 1), S_space>>

\* set_tcp_socket, lines 1050-1055: the authentication preamble.
auth_pieces(w) == <<S_auth, CStr(w.token \o <<NUL>>, 1), S_space>>

\* A get_server_config for which a server file that cannot be opened is as
\* fatal as a malformed one.
get_server_config_missing_is_fatal(w) ==
  IF w.cfg = "ok" THEN "true" ELSE "exit"

\* get_server_config (config_file, &server, authentication): "false" when
\* the file cannot be opened, "exit" when its first line has no colon or the
\* token is short, "true" otherwise.
get_server_config(w) ==
  IF w.cfg = "missing" THEN "false"
  ELSE IF w.cfg \in {"no_colon", "short_token"} THEN "exit"
  ELSE "true"

\* set_tcp_socket (local_server_file)
set_tcp_socket(file, w, opened, tr, room) ==
  LET open == [op |-> "fopen", kind |-> "tcp", cfg |-> w.cfg]
  IN IF get_server_config(w) = "false"
       THEN [s |-> INVALID_SOCKET, how |-> "return", fds |-> opened, tr |-> tr,
             log |-> <<open>>]
     ELSE IF get_server_config(w) = "exit"
       THEN [s |-> INVALID_SOCKET, how |-> "exit", fds |-> opened, tr |-> tr,
             log |-> <<open>>]
     ELSE IF ~w.socket_ok
       THEN [s |-> INVALID_SOCKET, how |-> "return", fds |-> opened, tr |-> tr,
             log |-> <<open, [op |-> "socket", kind |-> "tcp", ok |-> FALSE]>>]
     ELSE
       LET s == new_fd(opened)
           log1 == <<open, [op |-> "socket", kind |-> "tcp", ok |-> TRUE],
                     [op |-> "connect", kind |-> "tcp", path |-> "tcp",
                      ok |-> w.tcp_connect_ok]>>
       IN IF ~w.tcp_connect_ok
            THEN [s |-> INVALID_SOCKET, how |-> "return",
                  fds |-> opened \cup {s}, tr |-> tr, log |-> log1]
            ELSE [s |-> s, how |-> "return", fds |-> opened \cup {s},
                  tr |-> send_all(tr, auth_pieces(w), room),
                  log |-> log1]

\* What set_socket does with the result r of one attempt when that attempt
\* is the last one it makes (lines 1379-1383, 1394-1399, 1411-1422).
last_attempt(r, no_exit_if_error) ==
  IF r.how = "return" /\ r.s = INVALID_SOCKET /\ ~no_exit_if_error
    THEN [r EXCEPT !.how = "exit"]
    ELSE r

\* A set_socket that goes on to the server file when the explicitly named
\* local socket cannot be used.
set_socket_falls_back(no_exit_if_error, w, opened, tr, room) ==
  LET name == IF socket_name = NULL THEN w.EMACS_SOCKET_NAME ELSE socket_name
      file == IF server_file = NULL THEN w.EMACS_SERVER_FILE ELSE server_file
      l == set_local_socket(IF name # NULL THEN name ELSE T_server, w,
                            opened, tr)
      t == set_tcp_socket(IF file # NULL THEN file ELSE T_server, w, l.fds,
                          l.tr, room)
  IN IF l.s # INVALID_SOCKET \/ l.how # "return" THEN l
     ELSE last_attempt([t EXCEPT !.log = l.log \o @], no_exit_if_error)

\* set_socket (no_exit_if_error)
set_socket(no_exit_if_error, w, opened, tr, room) ==
  LET name == IF socket_name = NULL THEN w.EMACS_SOCKET_NAME ELSE socket_name
      file == IF server_file = NULL THEN w.EMACS_SERVER_FILE ELSE server_file
  IN IF name # NULL
       THEN last_attempt(set_local_socket(name, w, opened, tr),
                         no_exit_if_error)
     ELSE IF file # NULL
       THEN last_attempt(set_tcp_socket(file, w, opened, tr, room),
                         no_exit_if_error)
     ELSE
       LET l == set_local_socket(T_server, w, opened, tr)
           t == set_tcp_socket(T_server, w, l.fds, l.tr, room)
       IN IF l.s # INVALID_SOCKET \/ l.how # "return" THEN l
          ELSE last_attempt([t EXCEPT !.log = l.log \o @], no_exit_if_error)

----------------------------------------------------------------------------
(* The steps of main *)

MaxRecv == 2
BUFSIZ == 64

\* How send () answers during one step of main: it fails, or it takes all
\* that is offered.
SessionRooms == {-1, SEND_BUFFER_SIZE}

Running == [how |-> "running", code |-> 0]

\* fail (): the alternate editor replaces the process, or the process exits
\* with failure.
fail_ending ==
  IF alternate_editor # NULL /\ world.exec_ok
    THEN [how |-> "exec", code |-> 0]
    ELSE [how |-> "exit", code |-> EXIT_FAILURE]

transport == [buf |-> send_buffer, writes |-> writes, failed |-> FALSE]

\* send () on an invalid descriptor fails.
on_socket(room) == IF emacs_socket = INVALID_SOCKET THEN -1 ELSE room

neverChanged == <<quiet, suppress_output, eval, create_frame, parent_id,
                  alternate_editor, server_file, tramp_prefix,
                  frame_parameters, calls, codec, sig>>

\* The world once the daemon has started and listens, on a local socket or
\* (daemon_tcp) on a TCP port that it describes in the server file.
world_after_daemon ==
  IF world.daemon_serves
    THEN IF world.daemon_tcp
           THEN [world EXCEPT !.cfg = "ok", !.tcp_connect_ok = TRUE]
           ELSE [world EXCEPT
                   !.stat = [p \in DOMAIN world.stat |-> "euid"],
                   !.connect_ok = [p \in DOMAIN world.connect_ok |-> TRUE]]
    ELSE world

\* main, lines 1662-1668: nothing to do.
ArgumentRequired ==
  /\ pc = "start"
  /\ world.argv = <<>> /\ ~eval /\ ~create_frame
  /\ pc' = "exit"
  /\ ending' = [how |-> "exit", code |-> EXIT_FAILURE]
  /\ UNCHANGED <<optVars, emacs_socket, fds, send_buffer, mainVars, recvs,
                 world, writes, logVars, calls, codec, sig>>

\* A rule that starts the daemon whenever an alternate editor is set.
start_daemon_for_any_editor == alternate_editor # NULL

\* main, line 1683: the alternate editor is the empty string.
start_daemon_if_needed == alternate_editor # NULL /\ alternate_editor = <<>>

\* main, lines 1680-1691: the first set_socket call and what follows it.
SetSocket ==
  /\ pc = "start"
  /\ ~(world.argv = <<>> /\ ~eval /\ ~create_frame)
  /\ \E room \in SessionRooms :
       LET r == set_socket(alternate_editor # NULL \/ start_daemon_if_needed,
                           world, fds, transport, room)
       IN /\ attempts' = attempts \o r.log
          /\ fds' = r.fds
          /\ socket_name' = IF socket_name = NULL
                              THEN world.EMACS_SOCKET_NAME ELSE socket_name
          /\ send_buffer' = r.tr.buf
          /\ writes' = r.tr.writes
          /\ IF r.tr.failed \/ r.how = "fail"
               THEN /\ pc' = "exit" /\ ending' = fail_ending
                    /\ UNCHANGED emacs_socket
             ELSE IF r.how = "exit"
               THEN /\ pc' = "exit"
                    /\ ending' = [how |-> "exit", code |-> EXIT_FAILURE]
                    /\ UNCHANGED emacs_socket
             ELSE /\ emacs_socket' = r.s
                  /\ IF r.s # INVALID_SOCKET
                       THEN pc' = "main" /\ UNCHANGED ending
                     ELSE IF start_daemon_if_needed
                       THEN pc' = "daemon" /\ UNCHANGED ending
                     ELSE pc' = "exit" /\ ending' = fail_ending
  /\ UNCHANGED <<neverChanged, nowait, display, alt_display, tty, emacs_pid,
                 mainVars, recvs, world, stdout, stderr, dispatched>>

\* start_daemon_and_retry_set_socket, not WINDOWSNT.  world.fork says which
\* side of fork () this process is, or that fork failed; daemon_ok says
\* that the child exited with status 0 (the daemon is ready).
StartDaemon ==
  /\ pc = "daemon"
  /\ \E room \in SessionRooms :
       LET r == set_socket(TRUE, world_after_daemon, fds, transport, room)
           parent == world.fork = "parent" /\ world.daemon_ok
           fork == [op |-> "fork", kind |-> "daemon", side |-> world.fork,
                    ok |-> world.daemon_ok]
       IN /\ attempts' = attempts \o <<fork>>
                          \o (IF parent THEN r.log ELSE <<>>)
          /\ fds' = IF parent THEN r.fds ELSE fds
          /\ send_buffer' = IF parent THEN r.tr.buf ELSE send_buffer
          /\ writes' = IF parent THEN r.tr.writes ELSE writes
          /\ emacs_socket' = IF parent /\ ~r.tr.failed /\ r.how = "return"
                               THEN r.s ELSE emacs_socket
          /\ IF world.fork = "child"
               THEN IF world.exec_ok
                      THEN /\ pc' = "exit"
                           /\ ending' = [how |-> "exec", code |-> 0]
                      ELSE pc' = "main" /\ UNCHANGED ending
             ELSE IF ~parent
               THEN /\ pc' = "exit"
                    /\ ending' = [how |-> "exit", code |-> EXIT_FAILURE]
             ELSE IF r.tr.failed \/ r.how = "fail"
               THEN pc' = "exit" /\ ending' = fail_ending
             ELSE IF r.how = "exit" \/ r.s = INVALID_SOCKET
               THEN /\ pc' = "exit"
                    /\ ending' = [how |-> "exit", code |-> EXIT_FAILURE]
             ELSE pc' = "main" /\ UNCHANGED ending
  /\ UNCHANGED <<neverChanged, nowait, display, alt_display, tty, emacs_pid,
                 socket_name, mainVars, recvs, world, stdout, stderr,
                 dispatched>>

\* main, lines 1693-1722: the working directory, -env and -dir.
SendDir ==
  /\ pc = "main"
  /\ \E room \in SessionRooms :
       LET tr == IF world.cwd = NULL THEN transport
                 ELSE send_all(transport, dir_pieces(world), on_socket(room))
       IN /\ send_buffer' = tr.buf
          /\ writes' = tr.writes
          /\ IF world.cwd = NULL \/ tr.failed
               THEN pc' = "exit" /\ ending' = fail_ending
               ELSE pc' = "retry" /\ UNCHANGED ending
  /\ UNCHANGED <<neverChanged, nowait, display, alt_display, tty, emacs_pid,
                 socket_name, emacs_socket, fds, mainVars, recvs, world,
                 logVars>>

\* An end of main that returns exit_status whatever recv returned.
Finish_ignores_result(out, skip, status, rlv) ==
  /\ stdout' = out \o lead(skip)
  /\ exit_status' = status
  /\ fds' = fds \ {emacs_socket}
  /\ pc' = "exit"
  /\ ending' = [how |-> "return", code |-> status]

\* main, lines 1957-1967: after the receive loop.
Finish(out, skip, status, rlv) ==
  /\ stdout' = out \o lead(skip)
  /\ exit_status' = IF rlv < 0 THEN EXIT_FAILURE ELSE status
  /\ fds' = fds \ {emacs_socket}
  /\ pc' = "exit"
  /\ ending' = [how |-> "return",
                code |-> IF rlv < 0 THEN EXIT_FAILURE ELSE status]

\* main, lines 1724-1857: from the retry label to the receive loop.
SendCommands ==
  /\ pc = "retry"
  /\ \E room \in SessionRooms :
       LET found == tty_outcome(world)
           pieces == frame_pieces
                     \o (IF found = "fail" THEN <<>>
                         ELSE tty_pieces(world) \o tail_pieces(world))
           tr == send_all(transport, pieces, on_socket(room))
           waiting == ~eval /\ ~tty /\ ~nowait /\ ~quiet
           out == stdout \o (IF waiting THEN T_waiting ELSE <<>>)
           skip == IF waiting THEN FALSE ELSE skiplf
           reads == world.argv = <<>> /\ eval /\ world.stdin # <<>>
           line == IF reads THEN Last(world.stdin) ELSE <<>>
       IN /\ send_buffer' = tr.buf
          /\ writes' = tr.writes
          /\ IF found = "fail" \/ tr.failed
               THEN /\ pc' = "exit" /\ ending' = fail_ending
                    /\ UNCHANGED <<stdout, skiplf, exit_status, fds, world,
                                   string>>
               ELSE /\ world' = IF reads
                                  THEN [world EXCEPT !.stdin = <<>>] ELSE world
                    /\ string' = IF reads
                                   THEN line \o <<NUL>>
                                        \o SubSeq(string, Len(line) + 2,
                                                  Len(string))
                                   ELSE string
                    /\ skiplf' = skip
                    /\ IF exit_status = EXIT_SUCCESS
                         THEN /\ pc' = "recv" /\ stdout' = out
                              /\ UNCHANGED <<ending, exit_status, fds>>
                         ELSE Finish(out, skip, exit_status, rl)
  /\ UNCHANGED <<neverChanged, nowait, display, alt_display, tty, emacs_pid,
                 socket_name, emacs_socket, rl, recvs, stderr, dispatched,
                 attempts>>

\* The chunks the host of world w may send.
HostChunks(w) == w.host

\* main, lines 1857-1955: recv returns a chunk and its messages are
\* dispatched; the loop then receives again, goes to retry, or ends.
Recv ==
  /\ pc = "recv"
  /\ Len(recvs) < MaxRecv
  /\ \E chunk \in HostChunks(world) :
       LET d0 == [mem |-> chunk \o <<NUL>>
                          \o SubSeq(string, Len(chunk) + 2, Len(string)),
                  out |-> stdout, err |-> stderr, skiplf |-> skiplf,
                  exit_status |-> exit_status, emacs_pid |-> emacs_pid,
                  display |-> display, alt_display |-> alt_display,
                  nowait |-> nowait, tty |-> tty, disp |-> dispatched,
                  goto |-> FALSE, oob |-> FALSE, rl |-> Len(chunk)]
           d == lines_loop(d0, 1)
       IN /\ string' = d.mem
          /\ rl' = Len(chunk)
          /\ recvs' = Append(recvs, [rl |-> Len(chunk), data |-> chunk,
                                     errno |-> "none"])
          /\ emacs_pid' = d.emacs_pid
          /\ display' = d.display
          /\ alt_display' = d.alt_display
          /\ nowait' = d.nowait
          /\ tty' = d.tty
          /\ stderr' = d.err
          /\ dispatched' = d.disp
          /\ skiplf' = d.skiplf
          /\ IF d.oob
               THEN /\ pc' = "exit"
                    /\ ending' = [how |-> "undefined", code |-> EXIT_FAILURE]
                    /\ stdout' = d.out
                    /\ exit_status' = d.exit_status
                    /\ UNCHANGED fds
             ELSE IF d.goto
               THEN /\ pc' = "retry"
                    /\ stdout' = d.out
                    /\ exit_status' = d.exit_status
                    /\ UNCHANGED <<ending, fds>>
             ELSE IF d.exit_status = EXIT_SUCCESS
               THEN /\ pc' = "recv"
                    /\ stdout' = d.out
                    /\ exit_status' = d.exit_status
                    /\ UNCHANGED <<ending, fds>>
             ELSE Finish(d.out, d.skiplf, d.exit_status, Len(chunk))
  /\ UNCHANGED <<neverChanged, socket_name, emacs_socket, send_buffer, world,
                 writes, attempts>>

\* main, lines 1862-1869: recv returns 0 (the host closed the connection)
\* or a negative result with an error other than EINTR.
RecvEnd ==
  /\ pc = "recv"
  /\ \E result \in {0, -1} :
       /\ rl' = result
       /\ Finish(stdout, skiplf, exit_status, result)
       /\ recvs' = Append(recvs, [rl |-> result, data |-> <<>>,
                                  errno |-> IF result < 0 THEN "ECONNRESET"
                                            ELSE "none"])
  /\ UNCHANGED <<neverChanged, nowait, display, alt_display, tty, emacs_pid,
                 socket_name, emacs_socket, send_buffer, skiplf, string, world,
                 writes, stderr, dispatched, attempts>>

\* main, lines 1859-1866: recv fails with EINTR and is called again.
RecvInterrupted ==
  /\ pc = "recv"
  /\ Len(recvs) < MaxRecv
  /\ recvs' = Append(recvs, [rl |-> -1, data |-> <<>>, errno |-> "EINTR"])
  /\ rl' = -1
  /\ UNCHANGED <<pc, ending, optVars, emacs_socket, fds, send_buffer, skiplf,
                 exit_status, string, world, writes, logVars, calls, codec,
                 sig>>

----------------------------------------------------------------------------
(* Inputs: command lines, environments, file systems and hosts *)

H_pid == <<"-", "e", "m", "a", "c", "s", "-", "p", "i", "d", " ", "7", LF>>
H_print ==
  <<"-", "p", "r", "i", "n", "t", " ", "h", "e", "l", "l", "o", "&", "_",
  "w", "o", "r", "l", "d", LF>>
H_error ==
  <<"-", "e", "r", "r", "o", "r", " ", "b", "a", "d", "&", "n", "i", "n",
  "p", "u", "t", LF>>
H_print_nl == <<"-", "p", "r", "i", "n", "t", " ", "a", "&", "n", LF>>
H_print_nonl ==
  <<"-", "p", "r", "i", "n", "t", "-", "n", "o", "n", "l", " ", "b", LF>>
H_wsu ==
  <<"-", "w", "i", "n", "d", "o", "w", "-", "s", "y", "s", "t", "e", "m",
  "-", "u", "n", "s", "u", "p", "p", "o", "r", "t", "e", "d", " ", LF>>
H_suspend == <<"-", "s", "u", "s", "p", "e", "n", "d", " ", LF>>
H_unknown == <<"-", "p", "o", "n", "g", LF>>
H_suspend_bare == <<"-", "s", "u", "s", "p", "e", "n", "d", LF>>
H_wsu_bare ==
  <<"-", "w", "i", "n", "d", "o", "w", "-", "s", "y", "s", "t", "e", "m",
  "-", "u", "n", "s", "u", "p", "p", "o", "r", "t", "e", "d", LF>>
H_fragment == <<"-", "p", "r", "i", "n", "t", " ", "a">>
H_print_lone_amp == <<"-", "p", "r", "i", "n", "t", " ", "a", "&", LF>>
H_print_lone_amp_end == <<"-", "p", "r", "i", "n", "t", " ", "a", "&">>
H_error_short == <<"-", "e", "r", "r", "o", "r", " ", "b", LF>>
H_print_empty == <<"-", "p", "r", "i", "n", "t", " ", LF>>
H_error_empty == <<"-", "e", "r", "r", "o", "r", " ", LF>>
A_position == <<"+", "4", "2", ":", "7">>
A_notes == <<"n", "o", "t", "e", "s", ".", "t", "x", "t">>
A_plus == <<"+">>
A_colons == <<"+", "1", ":", "2", ":", "3">>
A_plus_letter == <<"+", "1", "a">>
A_dash == <<"-", "x", " ", "y">>
A_absolute == <<"/", "a", "&", "b">>
A_inner_plus == <<"a", "+", "1">>
W_cwd == <<"/", "h", "o", "m", "e", "/", "u", "/", "p", "r", "o", "j">>
W_cwd_space == <<"/", "a", " ", "b">>
W_tty_name == <<"/", "d", "e", "v", "/", "p", "t", "s", "/", "0">>
W_TERM == <<"x", "t", "e", "r", "m">>
W_eterm == <<"e", "t", "e", "r", "m", "-", "c", "o", "l", "o", "r">>
W_display == <<":", "0">>
W_DISPLAY == <<":", "1">>
W_ns == <<"n", "s">>
W_parent == <<"4", "2">>
W_frame_parameters == <<"(", "(", "a", " ", ".", " ", "1", ")", ")">>
W_tramp == <<"/", "s", "s", "h", ":", "h", ":">>
W_socket == <<"w", "o", "r", "k">>
W_socket_path == <<"/", "r", "u", "n", "/", "s">>
W_server_file == <<"a", "u", "t", "h">>
W_editor == <<"v", "i">>
W_line1 == <<"(", "f", " ", "1", ")", LF>>
W_line2 == <<"-", "x", LF>>


\* The 64 bytes of an authentication token.
W_token == [i \in 1..AUTH_KEY_LENGTH |-> "k"]

\* The options of a command line: n (--no-wait), q (--quiet), u
\* (--suppress-output), e (--eval), t (--tty), c (--create-frame), p
\* (--parent-id), d (--display), a (--alternate-editor or ALTERNATE_EDITOR),
\* s (--socket-name), f (--server-file), T (--tramp), F (--frame-parameters).
NoOptions ==
  [n |-> FALSE, q |-> FALSE, u |-> FALSE, e |-> FALSE, t |-> FALSE,
   c |-> FALSE, p |-> NULL, d |-> NULL, a |-> NULL, s |-> NULL, f |-> NULL,
   T |-> NULL, F |-> NULL]

\* A world where a server listens on the default local socket, there is no
\* terminal, and the host only reports its pid.  stack is the byte that
\* fills main's automatic array string before anything is stored in it.
PlainWorld ==
  [argv |-> <<A_notes>>, cwd |-> W_cwd, environ |-> <<>>, DISPLAY |-> NULL,
   build_alt |-> NULL, tty_name |-> NULL, TERM |-> W_TERM,
   inside_term |-> FALSE, stdin |-> <<>>, host |-> {H_pid},
   socket_ok |-> TRUE,
   stat |-> [p \in {"verbatim", "tmp_euid", "tmp_pwuid"} |-> "euid"],
   connect_ok |-> [p \in {"verbatim", "tmp_euid", "tmp_pwuid"} |-> TRUE],
   fits |-> [p \in {"verbatim", "tmp_euid", "tmp_pwuid"} |-> TRUE],
   pw |-> "nouser", cfg |-> "ok", tcp_connect_ok |-> TRUE,
   token |-> W_token, EMACS_SOCKET_NAME |-> NULL, EMACS_SERVER_FILE |-> NULL,
   exec_ok |-> TRUE, fork |-> "parent", daemon_ok |-> TRUE,
   daemon_serves |-> TRUE, daemon_tcp |-> FALSE, stack |-> NUL]

\* environ as the variables of the world give it.
environ_of(w) ==
  (IF w.DISPLAY # NULL
     THEN <<<<"D", "I", "S", "P", "L", "A", "Y", "=">> \o w.DISPLAY>>
     ELSE <<>>)
  \o (IF w.TERM # NULL THEN <<<<"T", "E", "R", "M", "=">> \o w.TERM>>
      ELSE <<>>)

BOOL == {TRUE, FALSE}

\* Hosts that answer with messages of every kind, several to a chunk.
DispatchChunks ==
  {H_pid, H_print \o H_error, H_print_nl \o H_print_nonl, H_error \o H_print_nl,
   H_suspend \o H_unknown, H_print \o H_fragment, H_error \o H_wsu,
   H_print_lone_amp \o H_error_short, H_print_empty \o H_error_empty,
   H_print, H_error, H_print_lone_amp_end, H_unknown \o H_pid,
   H_suspend_bare \o H_wsu_bare}

DispatchRuns ==
  { [o |-> [NoOptions EXCEPT !.u = u, !.q = q],
     w |-> [PlainWorld EXCEPT !.host = DispatchChunks, !.stack = b]] :
    u \in BOOL, q \in BOOL, b \in {NUL, "?"} }

\* Hosts that may report the window system unsupported, for every way of
\* asking for a frame.
RetryChunks == {H_wsu, H_pid, H_wsu \o H_print}

RetryRuns ==
  { [o |-> [NoOptions EXCEPT !.c = c, !.t = t, !.n = n, !.e = e, !.d = d],
     w |-> [PlainWorld EXCEPT !.DISPLAY = x[1], !.build_alt = x[2],
                              !.tty_name = x[3], !.host = RetryChunks]] :
    c \in BOOL, t \in BOOL, n \in BOOL, e \in BOOL, d \in {NULL, W_display},
    x \in {NULL, W_DISPLAY} \X {NULL, W_ns} \X {NULL, W_tty_name} }

FrameRuns ==
  { [o |-> [NoOptions EXCEPT !.c = c, !.p = p, !.F = F, !.a = a],
     w |-> [PlainWorld EXCEPT !.DISPLAY = W_DISPLAY, !.build_alt = W_ns,
                              !.tty_name = x[1], !.TERM = x[2],
                              !.inside_term = x[3],
                              !.host = {H_wsu, H_pid}]] :
    c \in BOOL, p \in {NULL, W_parent}, F \in {NULL, W_frame_parameters},
    a \in {NULL, W_editor},
    x \in {NULL, W_tty_name} \X {NULL, W_TERM, W_eterm} \X BOOL }

\* Command lines: files, positions, expressions, standard input.
Arguments ==
  {<<>>, <<A_notes>>, <<A_position, A_notes>>, <<A_plus>>, <<A_colons>>,
   <<A_plus_letter>>, <<A_dash>>, <<A_absolute>>, <<A_inner_plus, A_position>>}

ArgumentRuns ==
  { [o |-> [NoOptions EXCEPT !.e = e, !.T = T, !.n = n],
     w |-> [PlainWorld EXCEPT !.argv = argv, !.cwd = x[1], !.stdin = x[2]]] :
    e \in BOOL, T \in {NULL, W_tramp}, n \in BOOL, argv \in Arguments,
    x \in {W_cwd, W_cwd_space, NULL} \X {<<>>, <<W_line1, W_line2>>} }

\* File systems and configurations for endpoint resolution.
ResolveRuns ==
  { [o |-> [NoOptions EXCEPT !.s = s, !.f = f, !.a = a],
     w |-> [PlainWorld EXCEPT
              !.EMACS_SOCKET_NAME = x[1], !.EMACS_SERVER_FILE = x[2],
              !.stat = [p \in {"verbatim", "tmp_euid", "tmp_pwuid"} |->
                          IF p = "tmp_pwuid" THEN "euid" ELSE y[1]],
              !.connect_ok = [p \in {"verbatim", "tmp_euid", "tmp_pwuid"} |->
                                y[2]],
              !.pw = y[3], !.cfg = z[1], !.tcp_connect_ok = z[2]]] :
    s \in {NULL, W_socket, W_socket_path}, f \in {NULL, W_server_file},
    a \in {NULL, W_editor},
    x \in {NULL, W_socket} \X {NULL, W_server_file},
    y \in {"euid", "other", "ENOENT", "EACCES"} \X BOOL \X {"nouser", "other"},
    z \in {"missing", "no_colon", "short_token", "ok"} \X BOOL }

\* Socket names of every length, where LOGNAME names another user.
LongNameRuns ==
  { [o |-> [NoOptions EXCEPT !.s = s, !.a = a],
     w |-> [PlainWorld EXCEPT
              !.stat = [p \in {"verbatim", "tmp_euid", "tmp_pwuid"} |->
                          IF p = "tmp_pwuid" THEN y[2] ELSE y[1]],
              !.fits = [p \in {"verbatim", "tmp_euid", "tmp_pwuid"} |->
                          IF p = "tmp_pwuid" THEN x[2] ELSE x[1]],
              !.pw = "other"]] :
    s \in {W_socket, W_socket_path}, a \in {NULL, W_editor},
    x \in BOOL \X BOOL, y \in {"other", "ENOENT"} \X {"euid", "other"} }

\* Sessions that fail after the socket is connected: no working directory,
\* or a terminal asked for where there is none.
FailRuns ==
  { [o |-> [NoOptions EXCEPT !.t = t, !.a = a],
     w |-> [PlainWorld EXCEPT !.cwd = cwd]] :
    t \in BOOL, a \in {NULL, W_editor}, cwd \in {W_cwd, NULL} }

\* Worlds where the daemon may be started.
DaemonRuns ==
  { [o |-> [NoOptions EXCEPT !.a = <<>>, !.s = s],
     w |-> [PlainWorld EXCEPT
              !.stat = [p \in {"verbatim", "tmp_euid", "tmp_pwuid"} |->
                          "ENOENT"],
              !.cfg = x[1], !.socket_ok = x[2], !.fork = y[1],
              !.daemon_ok = y[2], !.daemon_serves = y[3], !.exec_ok = y[4]]] :
    s \in {NULL, W_socket},
    x \in {"missing", "ok"} \X BOOL,
    y \in {"parent", "child", "error"} \X BOOL \X BOOL \X BOOL }

\* Worlds where the daemon that is started listens on a TCP port.
DaemonTcpRuns ==
  { [o |-> [NoOptions EXCEPT !.a = <<>>, !.f = W_server_file],
     w |-> [PlainWorld EXCEPT !.cfg = x[1], !.tcp_connect_ok = FALSE,
                              !.daemon_serves = x[2], !.daemon_tcp = TRUE]] :
    x \in {"missing", "ok"} \X BOOL }

Runs ==
  DispatchRuns \cup RetryRuns \cup FrameRuns \cup ArgumentRuns
  \cup ResolveRuns \cup LongNameRuns \cup FailRuns \cup DaemonRuns
  \cup DaemonTcpRuns

\* The state when main is at step label on options o in world w, with
\* emacs_socket s.
StartWith(o, w, label, s) ==
  LET opt == decode_options(o, w.DISPLAY, w.build_alt)
  IN /\ pc = label
     /\ ending = Running
     /\ nowait = opt.nowait
     /\ quiet = opt.quiet
     /\ suppress_output = opt.suppress_output
     /\ eval = opt.eval
     /\ create_frame = opt.create_frame
     /\ display = opt.display
     /\ alt_display = opt.alt_display
     /\ parent_id = opt.parent_id
     /\ tty = opt.tty
     /\ alternate_editor = opt.alternate_editor
     /\ socket_name = opt.socket_name
     /\ server_file = opt.server_file
     /\ tramp_prefix = opt.tramp_prefix
     /\ frame_parameters = opt.frame_parameters
     /\ emacs_pid = 0
     /\ emacs_socket = s
     /\ fds = IF s = 0 \/ s = INVALID_SOCKET THEN {} ELSE {s}
     /\ send_buffer = <<>>
     /\ rl = 0
     /\ skiplf = TRUE
     /\ exit_status = EXIT_SUCCESS
     /\ string = [i \in 1..(BUFSIZ + 1) |-> w.stack]
     /\ recvs = <<>>
     /\ world = [w EXCEPT !.environ = environ_of(w)]
     /\ writes = <<>>
     /\ stdout = <<>>
     /\ stderr = <<>>
     /\ dispatched = <<>>
     /\ attempts = <<>>

\* The state when main starts on options o in world w.
Start(o, w, label) == StartWith(o, w, label, 0)

\* The signals init_signals gives a handler to.
Handled == {"SIGWINCH", "SIGCONT", "SIGTSTP", "SIGTTOU"}

\* send_to_emacs's statics as the program starts, and no signal handled:
\* errno is the error number, armed the signals whose handler is installed,
\* handled the runs of handle_sigcont (at is where main's send_to_emacs
\* call stood when the handler ran, "idle" between two calls).
NoSignals ==
  [arr |-> <<>>, sblen |-> 0, at |-> "idle", data |-> <<>>, dlen |-> 0,
   part |-> 0, sent |-> 0, ncalls |-> 0, nsignals |-> 0, stops |-> <<>>,
   kills |-> <<>>, errno |-> 0, armed |-> Handled, handled |-> <<>>]

\* No send_to_emacs call has been made on its own.  passed is the text of
\* all the calls made, in call order.
NoCall ==
  [n |-> 0, data |-> <<>>, room |-> 0, buf |-> <<>>, nwrites |-> 0,
   passed |-> <<>>]

Init ==
  /\ \E r \in Runs : Start(r.o, r.w, "start")
  /\ calls = NoCall
  /\ codec = <<>>
  /\ sig = NoSignals

Next ==
  \/ ArgumentRequired
  \/ SetSocket
  \/ StartDaemon
  \/ SendDir
  \/ SendCommands
  \/ Recv
  \/ RecvEnd
  \/ RecvInterrupted

Spec == Init /\ [][Next]_vars

----------------------------------------------------------------------------
(* The codec on its own: every string over an alphabet is quoted, and the  *)
(* quoted text is unquoted in a buffer of its own.                         *)

MaxStrLen == 3

CodecAlphabet == {"a", " ", LF, "&", "-", "_", "n"}

CodecStrings == UNION {[1..k -> CodecAlphabet] : k \in 0..MaxStrLen}

sessionVars == <<pc, ending, optVars, emacs_socket, fds, mainVars, recvs,
                 world, logVars>>

InitCodec ==
  /\ Start(NoOptions, PlainWorld, "codec")
  /\ calls = NoCall
  /\ sig = NoSignals
  /\ \E s \in CodecStrings :
       codec = [stage |-> "raw", s |-> s, wire |-> <<>>, back |-> <<>>,
                oob |-> FALSE]

\* quote_argument (s, str) on the string of this run.
Quote ==
  /\ codec.stage = "raw"
  /\ codec' = [codec EXCEPT !.stage = "quoted",
                            !.wire = quote_argument(codec.s)]
  /\ UNCHANGED <<sessionVars, send_buffer, writes, calls, sig>>

\* unquote_argument (str) on the quoted text, NUL-terminated in memory.
Unquote ==
  /\ codec.stage = "quoted"
  /\ LET u == unquote_argument(codec.wire \o <<NUL>>, 1)
     IN codec' = [codec EXCEPT !.stage = "unquoted",
                               !.back = CStr(u.mem, 1),
                               !.oob = u.oob]
  /\ UNCHANGED <<sessionVars, send_buffer, writes, calls, sig>>

NextCodec == Quote \/ Unquote

SpecCodec == InitCodec /\ [][NextCodec]_vars

----------------------------------------------------------------------------
(* The transport on its own: send_to_emacs called with fragments of every  *)
(* shape on a socket that takes all, part or none of what it is offered.   *)

MaxCalls == 3

F_dir == S_dir
F_text == <<"a", "b">>
F_line == <<"x", LF>>
F_inner_newline == <<"a", LF, "b">>
\* Two bytes short of the buffer's capacity.
F_big == [i \in 1..(SEND_BUFFER_SIZE - 2) |-> "y"]

SendCases ==
  ({F_dir, F_text, F_line, F_inner_newline} \X {-1, 2, SEND_BUFFER_SIZE})
  \cup ({F_big} \X {-1, SEND_BUFFER_SIZE - 1, SEND_BUFFER_SIZE})

InitSend ==
  /\ Start(NoOptions, PlainWorld, "send")
  /\ calls = NoCall
  /\ codec = <<>>
  /\ sig = NoSignals

\* send_to_emacs (s, data): one call.
SendToEmacs ==
  /\ pc = "send"
  /\ calls.n < MaxCalls
  /\ \E c \in SendCases :
       LET tr == send_to_emacs(transport, c[1], c[2])
       IN /\ send_buffer' = tr.buf
          /\ writes' = tr.writes
          /\ calls' = [n |-> calls.n + 1, data |-> c[1], room |-> c[2],
                       buf |-> send_buffer, nwrites |-> Len(writes),
                       passed |-> calls.passed \o c[1]]
          /\ IF tr.failed
               THEN pc' = "exit" /\ ending' = fail_ending
               ELSE UNCHANGED <<pc, ending>>
  /\ UNCHANGED <<optVars, emacs_socket, fds, mainVars, recvs, world, logVars,
                 codec, sig>>

NextSend == SendToEmacs

SpecSend == InitSend /\ [][NextSend]_vars

----------------------------------------------------------------------------
(* send_to_emacs under signals: main's call runs statement by statement,   *)
(* and a signal handler may run between any two of its statements.         *)

MaxSigCalls == 1
MaxSignals == 1

Max(a, b) == IF a > b THEN a ELSE b

\* Cell i (counted from 1) of send_buffer.  arr holds the cells stored so
\* far; the cells beyond are the zeros of static storage.
cell(arr, i) == IF i <= Len(arr) THEN arr[i] ELSE NUL

\* The first n cells of send_buffer.
cells(arr, n) == [i \in 1..n |-> cell(arr, i)]

\* memcpy (&send_buffer[sblen], data, part), bytes being the part copied.
memcpy(arr, sblen, bytes) ==
  [i \in 1..Max(Len(arr), sblen + Len(bytes)) |->
     IF sblen < i /\ i <= sblen + Len(bytes) THEN bytes[i - sblen]
     ELSE cell(arr, i)]

\* memmove (send_buffer, &send_buffer[sent], sblen - sent)
memmove(arr, sent, sblen) ==
  [i \in 1..Max(Len(arr), sblen - sent) |->
     IF i <= sblen - sent THEN cell(arr, i + sent) ELSE cell(arr, i)]

\* The end of the process on undefined behaviour.
Undefined == [how |-> "undefined", code |-> EXIT_FAILURE]

\* send_to_emacs (s, data) run from its first statement to its last on the
\* statics st: arr, sblen, the writes made, failed (fail () was called), oob
\* (a copy outside the array).
RECURSIVE send_loop_at(_, _, _)
send_loop_at(st, data, room) ==
  IF data = <<>> \/ st.failed \/ st.oob THEN st
  ELSE IF st.sblen < 0 THEN [st EXCEPT !.oob = TRUE]
  ELSE LET part == Min(Len(data), SEND_BUFFER_SIZE - st.sblen)
           arr == memcpy(st.arr, st.sblen, SubSeq(data, 1, part))
           sblen == st.sblen + part
           rest == SubSeq(data, part + 1, Len(data))
       IN IF flush_due(cells(arr, sblen))
            THEN LET sent == send_result(sblen, room)
                     w == Append(st.writes, [data |-> cells(arr, sblen),
                                             sent |-> sent])
                 IN IF sent < 0
                      THEN [st EXCEPT !.arr = arr, !.sblen = sblen,
                                      !.writes = w, !.failed = TRUE]
                      ELSE send_loop_at(
                             [st EXCEPT !.arr = IF sent # sblen
                                                  THEN memmove(arr, sent, sblen)
                                                  ELSE arr,
                                        !.sblen = sblen - sent,
                                        !.writes = w],
                             rest, room)
            ELSE send_loop_at([st EXCEPT !.arr = arr, !.sblen = sblen],
                              rest, room)

\* What main passes to send_to_emacs, and what send () takes of a request.
SignalPieces == {S_dir, <<"x", LF>>}
SignalRooms == {-1, 2, SEND_BUFFER_SIZE}

\* main has connected (or holds an invalid socket) and has installed the
\* handlers (init_signals).
InitSignal ==
  /\ \E s \in {3, INVALID_SOCKET}, t \in BOOL :
       StartWith([NoOptions EXCEPT !.t = t],
                 [PlainWorld EXCEPT !.tty_name = W_tty_name], "signals", s)
  /\ calls = NoCall
  /\ codec = <<>>
  /\ sig = NoSignals

signalOthers == <<optVars, emacs_socket, fds, send_buffer, mainVars, recvs,
                  world, logVars, calls, codec>>

\* main calls send_to_emacs (emacs_socket, data): line 785, dlen = strlen.
Call ==
  /\ pc = "signals"
  /\ sig.at = "idle"
  /\ sig.ncalls < MaxSigCalls
  /\ \E data \in SignalPieces :
       sig' = [sig EXCEPT !.at = "loop", !.data = data, !.dlen = Len(data),
                          !.ncalls = @ + 1]
  /\ UNCHANGED <<pc, ending, writes, signalOthers>>

\* Lines 785 and 787: the loop's test, and part.
Part ==
  /\ pc = "signals"
  /\ sig.at = "loop"
  /\ sig' = IF sig.dlen = 0 THEN [sig EXCEPT !.at = "idle"]
            ELSE [sig EXCEPT !.at = "copy",
                             !.part = Min(sig.dlen,
                                          SEND_BUFFER_SIZE - sig.sblen)]
  /\ UNCHANGED <<pc, ending, writes, signalOthers>>

\* Line 788: memcpy.
Copy ==
  /\ pc = "signals"
  /\ sig.at = "copy"
  /\ IF sig.sblen < 0
       THEN pc' = "exit" /\ ending' = Undefined /\ UNCHANGED sig
       ELSE /\ sig' = [sig EXCEPT !.arr = memcpy(@, sig.sblen,
                                                 SubSeq(sig.data, 1, sig.part)),
                                  !.at = "advance"]
            /\ UNCHANGED <<pc, ending>>
  /\ UNCHANGED <<writes, signalOthers>>

\* Lines 789-790: data += part; sblen += part.
Advance ==
  /\ pc = "signals"
  /\ sig.at = "advance"
  /\ sig' = [sig EXCEPT !.data = SubSeq(@, sig.part + 1, Len(@)),
                        !.sblen = @ + sig.part,
                        !.at = "test"]
  /\ UNCHANGED <<pc, ending, writes, signalOthers>>

\* Lines 792-793, and line 807 when the buffer is not sent.
Test ==
  /\ pc = "signals"
  /\ sig.at = "test"
  /\ sig' = IF flush_due(cells(sig.arr, sig.sblen))
              THEN [sig EXCEPT !.at = "send"]
              ELSE [sig EXCEPT !.at = "loop", !.dlen = @ - sig.part]
  /\ UNCHANGED <<pc, ending, writes, signalOthers>>

\* Lines 795-801: send, and fail () on a negative result.
Send ==
  /\ pc = "signals"
  /\ sig.at = "send"
  /\ \E room \in SignalRooms :
       LET sent == send_result(sig.sblen, on_socket(room))
       IN /\ writes' = Append(writes, [data |-> cells(sig.arr, sig.sblen),
                                       sent |-> sent])
          /\ sig' = [sig EXCEPT !.sent = sent, !.at = "settle"]
          /\ IF sent < 0
               THEN pc' = "exit" /\ ending' = fail_ending
               ELSE UNCHANGED <<pc, ending>>
  /\ UNCHANGED signalOthers

\* Lines 802-807: memmove, sblen -= sent, dlen -= part.  A negative length
\* handed to memmove is undefined.
Settle ==
  /\ pc = "signals"
  /\ sig.at = "settle"
  /\ IF sig.sent # sig.sblen /\ sig.sblen - sig.sent < 0
       THEN pc' = "exit" /\ ending' = Undefined /\ UNCHANGED sig
       ELSE /\ sig' = [sig EXCEPT !.arr = IF sig.sent # sig.sblen
                                            THEN memmove(@, sig.sent, sig.sblen)
                                            ELSE @,
                                  !.sblen = @ - sig.sent,
                                  !.dlen = @ - sig.part,
                                  !.at = "loop"]
            /\ UNCHANGED <<pc, ending>>
  /\ UNCHANGED <<writes, signalOthers>>

\* A handler's send_to_emacs (emacs_socket, notice), run to its end.
handler_send(notice, room) ==
  send_loop_at([arr |-> sig.arr, sblen |-> sig.sblen, writes |-> writes,
                failed |-> FALSE, oob |-> FALSE], notice, on_socket(room))

\* What a handler leaves behind when its send_to_emacs ended as st.
after_handler(st) ==
  /\ writes' = st.writes
  /\ IF st.oob THEN pc' = "exit" /\ ending' = Undefined
     ELSE IF st.failed THEN pc' = "exit" /\ ending' = fail_ending
     ELSE UNCHANGED <<pc, ending>>

\* handle_sigtstp (SIGTSTP, SIGTTOU): the notice, then the signal is raised
\* again with its default action, which stops the process.  stops records,
\* for each stop, the bytes the socket had accepted and the fill length.
HandleSigtstp ==
  /\ pc = "signals"
  /\ sig.nsignals < MaxSignals
  /\ \E room \in SignalRooms :
       LET st == IF emacs_socket # 0 THEN handler_send(S_suspend, room)
                 ELSE handler_send(<<>>, room)
       IN /\ after_handler(st)
          /\ sig' = [sig EXCEPT
                       !.arr = st.arr, !.sblen = st.sblen,
                       !.nsignals = @ + 1,
                       !.stops = IF st.oob \/ st.failed THEN @
                                 ELSE Append(@, [sent |-> accepted(st.writes),
                                                 sblen |-> st.sblen])]
  /\ UNCHANGED signalOthers

\* What getpgrp () returns, the group of another job, and errno after a
\* tcgetpgrp that failed.
W_pgrp == 7
W_other_pgrp == 8
ENOTTY == 25

\* What tcgetpgrp (STDOUT_FILENO) may return: the client's group, another
\* group, or -1 when standard output is not the controlling terminal.
TcGroups == {W_pgrp, W_other_pgrp, -1}

\* A handle_sigcont that cancels the continue whenever the client is not
\* in the foreground of a terminal it uses, known or not.
handle_sigcont_without_group_test(tcpgrp, room, reset) ==
  LET old_errno == sig.errno
      pgrp == W_pgrp
      st == IF tcpgrp = pgrp THEN handler_send(S_resume, room)
            ELSE handler_send(<<>>, room)
  IN [st |-> st,
      notice |-> IF tcpgrp = pgrp THEN S_resume ELSE <<>>,
      kill |-> IF tcpgrp # pgrp /\ tty
                 THEN <<[pid |-> -pgrp, signal |-> "SIGTTIN"]>> ELSE <<>>,
      inside |-> IF tcpgrp < 0 THEN ENOTTY ELSE old_errno,
      armed |-> (IF reset THEN sig.armed \ {"SIGCONT"} ELSE sig.armed)
                \cup {"SIGCONT"},
      errno |-> old_errno]

\* handle_sigcont (signalnum) when tcgetpgrp returns tcpgrp, send () takes
\* room bytes and the delivery of the signal reset its disposition (reset)
\* or not: the transport after the handler's send_to_emacs, the notice it
\* passed, the signals it raised, errno as the library calls left it
\* (inside), the installed handlers and errno at the last statement.
handle_sigcont(tcpgrp, room, reset) ==
  LET old_errno == sig.errno
      pgrp == W_pgrp
      st == IF tcpgrp = pgrp THEN handler_send(S_resume, room)
            ELSE handler_send(<<>>, room)
  IN [st |-> st,
      notice |-> IF tcpgrp = pgrp THEN S_resume ELSE <<>>,
      kill |-> IF tcpgrp # pgrp /\ 0 <= tcpgrp /\ tty
                 THEN <<[pid |-> -pgrp, signal |-> "SIGTTIN"]>> ELSE <<>>,
      inside |-> IF tcpgrp < 0 THEN ENOTTY ELSE old_errno,
      armed |-> (IF reset THEN sig.armed \ {"SIGCONT"} ELSE sig.armed)
                \cup {"SIGCONT"},
      errno |-> old_errno]

\* handle_sigcont (SIGCONT): in the foreground the -resume notice is sent;
\* in the background, on a tty, the continue is cancelled.  A handler whose
\* send_to_emacs called fail () does not return.
HandleSigcont ==
  /\ pc = "signals"
  /\ sig.nsignals < MaxSignals
  /\ "SIGCONT" \in sig.armed
  /\ \E room \in SignalRooms, tcpgrp \in TcGroups, reset \in BOOL :
       LET h == handle_sigcont(tcpgrp, room, reset)
           st == h.st
           returned == ~st.oob /\ ~st.failed
       IN /\ after_handler(st)
          /\ sig' = [sig EXCEPT
                       !.arr = st.arr, !.sblen = st.sblen,
                       !.nsignals = @ + 1,
                       !.kills = IF h.kill # <<>>
                                   THEN Append(@, "SIGTTIN") ELSE @,
                       !.errno = IF returned THEN h.errno ELSE h.inside,
                       !.armed = IF returned THEN h.armed ELSE @,
                       !.handled =
                         Append(@, [at |-> sig.at, tcpgrp |-> tcpgrp,
                                    before |-> sig.errno,
                                    inside |-> h.inside, notice |-> h.notice,
                                    kill |-> h.kill, returned |-> returned,
                                    after |-> h.errno,
                                    wrote |-> SubSeq(st.writes,
                                                     Len(writes) + 1,
                                                     Len(st.writes))])]
  /\ UNCHANGED signalOthers

\* pass_signal_to_emacs (SIGWINCH).
PassSignal ==
  /\ pc = "signals"
  /\ sig.nsignals < MaxSignals
  /\ sig' = [sig EXCEPT !.nsignals = @ + 1,
                        !.kills = IF emacs_pid # 0
                                    THEN Append(@, "SIGWINCH") ELSE @]
  /\ UNCHANGED <<pc, ending, writes, signalOthers>>

NextSignal ==
  \/ Call
  \/ Part
  \/ Copy
  \/ Advance
  \/ Test
  \/ Send
  \/ Settle
  \/ HandleSigtstp
  \/ HandleSigcont
  \/ PassSignal

SpecSignal == InitSignal /\ [][NextSignal]_vars

----------------------------------------------------------------------------
(* Properties of the codec and of the transport *)

\* C1: for every string s of printable characters, spaces and newlines
\* (the empty string, strings starting with '-' and strings containing '&'
\* included), unquote_argument applied to what quote_argument produced for
\* s yields exactly s, reading nothing beyond the quoted text.
C1_RoundTrip ==
  codec.stage = "unquoted" => codec.back = codec.s /\ ~codec.oob

\* A round trip of a string that starts with '-' and holds '&' and newline.
C1_Witness ==
  /\ codec.stage = "unquoted"
  /\ codec.s = <<"-", "&", LF>>
  /\ codec.wire = <<"&", "-", "&", "&", "&", "n">>
  /\ codec.back = codec.s

\* C2: a send_to_emacs call whose text does not end in a newline and that
\* leaves the buffer under its 4096-byte capacity causes no write to the
\* socket; a call with a newline-terminated fragment that still fits causes
\* exactly one write, which carries the bytes buffered before the call
\* followed by the fragment.
C2_FlushBoundary ==
  calls.n > 0 =>
    /\ (/\ calls.data # <<>> => Last(calls.data) # LF
        /\ Len(calls.buf) + Len(calls.data) < SEND_BUFFER_SIZE)
       => /\ Len(writes) = calls.nwrites
          /\ send_buffer = calls.buf \o calls.data
    /\ (/\ calls.data # <<>> /\ Last(calls.data) = LF
        /\ Len(calls.buf) + Len(calls.data) <= SEND_BUFFER_SIZE)
       => /\ Len(writes) = calls.nwrites + 1
          /\ Last(writes).data = calls.buf \o calls.data

\* Two fragments without a final newline were buffered with no write, and
\* the newline-terminated third one caused the single write of all three.
C2_Witness ==
  /\ calls.n = 3
  /\ calls.buf = F_dir \o F_inner_newline
  /\ calls.data = F_line
  /\ calls.nwrites = 0
  /\ Len(writes) = 1
  /\ writes[1].data = F_dir \o F_inner_newline \o F_line

----------------------------------------------------------------------------
(* Properties of endpoint resolution *)

\* The attempts that touched the server file or a TCP socket.
tcp_attempts == {i \in 1..Len(attempts) : attempts[i].kind = "tcp"}

\* The last thing resolution did was to find the local socket absent,
\* inaccessible, owned by someone else, or not accepting connections.
local_socket_failed ==
  /\ attempts # <<>>
  /\ Last(attempts).kind = "local"
  /\ \/ Last(attempts).op = "stat" /\ Last(attempts).status # 0
     \/ Last(attempts).op = "connect" /\ ~Last(attempts).ok

\* C3 (as amended): when a local-socket name is configured (by option or by
\* EMACS_SOCKET_NAME), with or without a server file, endpoint resolution
\* attempts the local socket first and nothing else: when that socket cannot
\* be used, resolution reports failure without attempting the TCP server
\* file.  The server file is attempted only when no socket name is
\* configured.
C3_ExplicitSocketOnly ==
  (pc # "start" /\ attempts # <<>>) =>
    /\ socket_name # NULL =>
         /\ attempts[1].kind = "local"
         /\ tcp_attempts = {}
         /\ local_socket_failed =>
              \/ ending = [how |-> "exit", code |-> EXIT_FAILURE]
              \/ alternate_editor # NULL /\ emacs_socket = INVALID_SOCKET
    /\ tcp_attempts # {} => socket_name = NULL

\* Both a socket name and a server file were given, the socket was not
\* found, and the process exited without looking at the server file.
C3_Witness ==
  /\ socket_name = W_socket
  /\ server_file = W_server_file
  /\ alternate_editor = NULL
  /\ world.cfg = "ok" /\ world.tcp_connect_ok
  /\ local_socket_failed
  /\ tcp_attempts = {}
  /\ ending = [how |-> "exit", code |-> EXIT_FAILURE]

\* C3 (as stated): with both a local-socket name and a server file
\* configured, when the local socket is absent or inaccessible the TCP
\* server file is attempted before resolution reports failure.
C3_FallsBackToServerFile ==
  (/\ pc # "start"
   /\ socket_name # NULL
   /\ server_file # NULL
   /\ local_socket_failed)
  => tcp_attempts # {}

----------------------------------------------------------------------------
(* Properties of the session *)

\* The words of a byte string: what spaces and newlines separate.
RECURSIVE Words(_, _)
Words(bytes, word) ==
  IF bytes = <<>> THEN <<word>>
  ELSE IF Head(bytes) \in {" ", LF}
    THEN <<word>> \o Words(Tail(bytes), <<>>)
    ELSE Words(Tail(bytes), Append(word, Head(bytes)))

HasWord(bytes, word) ==
  LET ws == Words(bytes, <<>>)
  IN \E i \in 1..Len(ws) : ws[i] = word

\* The word that follows the first occurrence of word.
HasDirective(bytes, word, value) ==
  LET ws == Words(bytes, <<>>)
  IN \E i \in 1..(Len(ws) - 1) : ws[i] = word /\ ws[i + 1] = value

EndsWith(bytes, suffix) ==
  /\ Len(suffix) <= Len(bytes)
  /\ SubSeq(bytes, Len(bytes) - Len(suffix) + 1, Len(bytes)) = suffix

Contains(bytes, part) ==
  \E i \in 0..(Len(bytes) - Len(part)) :
    SubSeq(bytes, i + 1, i + Len(part)) = part

\* A directive keyword without the space that ends it.
Keyword(directive) == SubSeq(directive, 1, Len(directive) - 1)

\* The last message dispatched was -window-system-unsupported.
retried ==
  /\ dispatched # <<>>
  /\ Last(dispatched).kind = "window-system-unsupported"

\* A command stream has gone out since the last message was dispatched: it
\* is the last write, as every stream ends in a newline.
stream_sent == pc = "recv" \/ ending.how = "return"

error_dispatched ==
  \E i \in 1..Len(dispatched) : dispatched[i].kind = "error"

\* C4 (as amended): when -window-system-unsupported is dispatched while an
\* alternate display candidate exists, the current display becomes that
\* candidate, the candidate is cleared, the tty and no-wait flags are
\* unchanged, and the next outgoing command stream carries -display with
\* the alternate display; it carries a -tty directive exactly when a usable
\* terminal is found, as the stream of the previous attempt did.
C4_RetryWithAlternate ==
  (retried /\ Last(dispatched).alt_display # NULL) =>
    /\ display = Last(dispatched).alt_display
    /\ alt_display = NULL
    /\ tty = Last(dispatched).tty
    /\ nowait = Last(dispatched).nowait
    /\ stream_sent =>
         /\ HasDirective(Last(writes).data, Keyword(S_display),
                         quote_argument(Last(dispatched).alt_display))
         /\ HasWord(Last(writes).data, Keyword(S_tty))
            <=> find_tty(world, TRUE) = "found"
         /\ HasWord(Last(writes).data, Keyword(S_tty))
            <=> HasWord(writes[Len(writes) - 1].data, Keyword(S_tty))

\* A retry with the alternate display "ns" on a terminal: the stream that
\* went out says -display ns and -tty.
C4_Witness ==
  /\ retried
  /\ Last(dispatched).alt_display = W_ns
  /\ display = W_ns
  /\ pc = "recv"
  /\ HasDirective(Last(writes).data, Keyword(S_display), W_ns)
  /\ HasDirective(Last(writes).data, Keyword(S_tty),
                  quote_argument(W_tty_name))

\* C4 (as stated): ... and the next outgoing command stream carries -display
\* with the alternate display and no -tty directive.
C4_NoTtyDirective ==
  (retried /\ Last(dispatched).alt_display # NULL) =>
    /\ display = Last(dispatched).alt_display
    /\ alt_display = NULL
    /\ tty = Last(dispatched).tty
    /\ nowait = Last(dispatched).nowait
    /\ stream_sent =>
         /\ HasDirective(Last(writes).data, Keyword(S_display),
                         quote_argument(Last(dispatched).alt_display))
         /\ ~HasWord(Last(writes).data, Keyword(S_tty))

\* C5, the state after the retry: terminal mode is forced, no-wait is
\* cleared, and the stream sent next says neither -nowait nor
\* -window-system.
C5_ForcedTerminal ==
  (retried /\ Last(dispatched).alt_display = NULL) =>
    /\ tty
    /\ ~nowait
    /\ stream_sent =>
         /\ ~HasWord(Last(writes).data, Keyword(S_nowait))
         /\ ~HasWord(Last(writes).data, Keyword(S_window_system))

\* C5, the steps from the retry to the stream: the socket is the one the
\* retry found, and no resolution attempt is made.
C5_SameSocket ==
  pc = "retry" =>
    /\ emacs_socket' = emacs_socket
    /\ attempts' = attempts
    /\ fds' \subseteq fds

\* C5: when -window-system-unsupported is dispatched with no alternate
\* display candidate, the client forces terminal mode (tty = true) and
\* clears no-wait, and the command stream it sends next, on the same socket
\* without reconnecting, contains neither -nowait nor -window-system.
C5_RetryOnTerminal == [](C5_ForcedTerminal) /\ [][C5_SameSocket]_vars

\* A retry without alternate display in a session that had asked for a
\* window-system frame without waiting: the next stream went out with -tty.
C5_Witness ==
  /\ retried
  /\ Last(dispatched).alt_display = NULL
  /\ Last(dispatched).nowait
  /\ ~Last(dispatched).tty
  /\ create_frame
  /\ pc = "recv"
  /\ HasWord(writes[Len(writes) - 1].data, Keyword(S_nowait))
  /\ HasWord(writes[Len(writes) - 1].data, Keyword(S_window_system))
  /\ HasWord(Last(writes).data, Keyword(S_tty))

\* C6: for every run that reaches the receive loop and ends through its
\* normal exit, the process exit status is failure if and only if at least
\* one -error message was dispatched or the final receive returned a
\* negative result; once an -error has been dispatched the status is
\* failure in every later state.
C6_ExitStatus ==
  /\ ending.how = "return" =>
       (ending.code = EXIT_FAILURE <=> error_dispatched \/ rl < 0)
  /\ error_dispatched => exit_status = EXIT_FAILURE

\* An -error was dispatched, a -print after it, and main returned failure.
C6_Witness ==
  /\ ending = [how |-> "return", code |-> EXIT_FAILURE]
  /\ rl > 0
  /\ Len(dispatched) = 2
  /\ dispatched[1].kind = "error"
  /\ dispatched[2].kind = "print"

\* C7 (as amended): after an -error message is dispatched, the messages
\* that follow it in the same receive chunk are still dispatched, and then
\* the loop stops: no further receive is made.
C7_StopsAfterChunk ==
  /\ error_dispatched => pc # "recv"
  /\ \A i \in 1..Len(dispatched) :
       (dispatched[i].kind = "error" /\ dispatched[i].rest > 0)
       => i < Len(dispatched)

\* The chunk held an -error and then a -print; both were dispatched, and
\* main returned although the last receive had returned data.
C7_Witness ==
  /\ Len(recvs) = 1
  /\ recvs[1].data = H_error \o H_print_nl
  /\ Len(dispatched) = 2
  /\ dispatched[1].kind = "error" /\ dispatched[1].rest = Len(H_print_nl)
  /\ dispatched[2].kind = "print"
  /\ ending.how = "return"
  /\ rl = Len(H_error \o H_print_nl)

\* C7 (as stated): after an -error is dispatched the loop goes on receiving
\* until a receive returns zero or a negative result.
C7_ReceivesUntilClosed ==
  (error_dispatched /\ ending.how = "return") => rl <= 0

\* The bytes the host has sent so far.
RECURSIVE Received(_)
Received(results) ==
  IF results = <<>> THEN <<>>
  ELSE Received(SubSeq(results, 1, Len(results) - 1)) \o Last(results).data

\* The host's response is a -print line with text t1 followed by an -error
\* line with text t2, and nothing else.
IsPrintThenError(bytes, t1, t2) ==
  bytes = M_print \o t1 \o <<LF>> \o M_error \o t2 \o <<LF>>

\* C8: for a host response made of a -print <t1> line followed by an
\* -error <t2> line, the client writes decode(t1) to standard output,
\* writes "*ERROR*: " followed by decode(t2) to standard error, and ends
\* with failure exit status; for -print hello&_world and -error bad&ninput
\* the texts are "hello world" and "*ERROR*: bad<newline>input".  The
\* statement is read in its favour: for sessions that do not suppress output
\* (with --suppress-output a -print line writes nothing), for a response
\* that arrives in one receive, and with "writes to standard output" met by
\* the text appearing in the output.
C8_PrintThenError ==
  (/\ ending.how = "return" /\ rl >= 0 /\ ~suppress_output
   /\ recvs # <<>> /\ recvs[1].data = Received(recvs)) =>
    LET c == Received(recvs)
    IN \A i \in 1..Len(c) :
         LET t1 == SubSeq(c, Len(M_print) + 1, i - 1)
             t2 == SubSeq(c, i + Len(M_error) + 1, Len(c) - 1)
         IN (/\ c[i] = LF
             /\ LF \notin {t1[k] : k \in 1..Len(t1)}
             /\ IsPrintThenError(c, t1, t2))
            => /\ Contains(stdout, decode(t1))
               /\ stderr = T_error \o decode(t2)
               /\ ending.code = EXIT_FAILURE
               /\ c = H_print \o H_error =>
                    /\ Contains(stdout, <<"h", "e", "l", "l", "o", " ", "w",
                                          "o", "r", "l", "d">>)
                    /\ stderr = T_error \o <<"b", "a", "d", LF, "i", "n",
                                             "p", "u", "t">>

\* The line a file name or position argument is sent as, by the rule of
\* the command-line syntax: '+' followed only by digits and colons is a
\* position.
plus_digits_colons(arg) ==
  /\ arg # <<>>
  /\ arg[1] = "+"
  /\ \A i \in 2..Len(arg) : isdigit(arg[i]) \/ arg[i] = ":"

\* +digits or +digits:digits, with at least one digit in each place.
digits(text) == text # <<>> /\ \A i \in 1..Len(text) : isdigit(text[i])

plus_line_column(arg) ==
  /\ Len(arg) >= 2
  /\ arg[1] = "+"
  /\ \/ digits(Tail(arg))
     \/ \E k \in 2..Len(arg) :
          /\ arg[k] = ":"
          /\ digits(SubSeq(arg, 2, k - 1))
          /\ digits(SubSeq(arg, k + 1, Len(arg)))

RECURSIVE file_directives(_)
file_directives(args) ==
  IF args = <<>> THEN <<>>
  ELSE S_file \o quote_argument(Head(args)) \o S_space
       \o file_directives(Tail(args))

\* The bytes the socket accepted, without the -auth preamble of a TCP
\* connection.
after_auth(bytes) ==
  IF strprefix(S_auth, bytes)
    THEN SubSeq(bytes, Len(S_auth) + AUTH_KEY_LENGTH + 2, Len(bytes))
    ELSE bytes

\* The first command stream has gone out and nothing has been received.
first_stream_sent == pc = "recv" /\ recvs = <<>>

\* A session that requests no new frame, has no display, no usable
\* terminal, no Tramp prefix, is not in eval or no-wait mode.
plain_file_session ==
  /\ ~create_frame
  /\ display = NULL
  /\ find_tty(world, TRUE) # "found"
  /\ tramp_prefix = NULL
  /\ ~eval
  /\ ~nowait
  /\ world.argv # <<>>

scenario_A_stream ==
  <<"-", "d", "i", "r", " ", "/", "h", "o", "m", "e", "/", "u", "/", "p",
  "r", "o", "j", "/", " ", "-", "c", "u", "r", "r", "e", "n", "t", "-", "f",
  "r", "a", "m", "e", " ", "-", "f", "i", "l", "e", " ", "n", "o", "t", "e",
  "s", ".", "t", "x", "t", " ", LF>>

\* C9 (as amended): for a session that requests no new frame, has no
\* display, no usable terminal, no Tramp prefix, is not in eval or no-wait
\* mode, and has filename arguments f1..fn, none of them a '+' followed only
\* by digits and colons, the bytes sent after any auth preamble are exactly
\* "-dir <enc(cwd)>/ -current-frame -file <enc(f1)> ... -file <enc(fn)> "
\* followed by one newline; for cwd /home/u/proj and the single argument
\* notes.txt this is "-dir /home/u/proj/ -current-frame -file notes.txt "
\* plus newline.
C9_PlainFileStream ==
  (/\ first_stream_sent
   /\ plain_file_session
   /\ \A i \in 1..Len(world.argv) : ~plus_digits_colons(world.argv[i]))
  => /\ after_auth(accepted(writes))
        = S_dir \o quote_argument(world.cwd) \o S_slash \o S_space
          \o S_current_frame \o file_directives(world.argv) \o S_newline
     /\ (world.cwd = W_cwd /\ world.argv = <<A_notes>>)
        => after_auth(accepted(writes)) = scenario_A_stream

\* Scenario A over a TCP connection: the stream follows the auth preamble.
C9_Witness ==
  /\ first_stream_sent
  /\ plain_file_session
  /\ world.cwd = W_cwd
  /\ world.argv = <<A_notes>>
  /\ strprefix(S_auth, accepted(writes))
  /\ after_auth(accepted(writes)) = scenario_A_stream

\* C9 (as stated): ... and has filename arguments f1..fn (none of the form
\* +digits[:digits]), the bytes sent after any auth preamble are exactly
\* "-dir <enc(cwd)>/ -current-frame -file <enc(f1)> ... -file <enc(fn)> "
\* followed by one newline.
C9_LineColumnForm ==
  (/\ first_stream_sent
   /\ plain_file_session
   /\ \A i \in 1..Len(world.argv) : ~plus_line_column(world.argv[i]))
  => after_auth(accepted(writes))
     = S_dir \o quote_argument(world.cwd) \o S_slash \o S_space
       \o S_current_frame \o file_directives(world.argv) \o S_newline

RECURSIVE argument_directives(_)
argument_directives(args) ==
  IF args = <<>> THEN <<>>
  ELSE (IF plus_digits_colons(Head(args))
          THEN S_position \o quote_argument(Head(args)) \o S_space
          ELSE S_file
               \o (IF tramp_prefix # NULL /\ Head(Head(args) \o <<NUL>>) = "/"
                     THEN quote_argument(tramp_prefix) ELSE <<>>)
               \o quote_argument(Head(args)) \o S_space)
       \o argument_directives(Tail(args))

scenario_B_directives ==
  <<"-", "p", "o", "s", "i", "t", "i", "o", "n", " ", "+", "4", "2", ":",
  "7", " ", "-", "f", "i", "l", "e", " ", "n", "o", "t", "e", "s", ".", "t",
  "x", "t", " ">>

\* C10: in file mode (not eval) an argument is sent as a standalone
\* "-position <arg> " directive if and only if it starts with '+' and every
\* following character is a digit or a colon; every other argument is sent
\* as a -file directive.  The arguments +42:7 and notes.txt yield
\* "-position +42:7 " followed by "-file notes.txt ".
C10_PositionOrFile ==
  (first_stream_sent /\ ~eval /\ world.argv # <<>>) =>
    /\ EndsWith(accepted(writes),
                argument_directives(world.argv) \o S_newline)
    /\ (world.argv = <<A_position, A_notes>> /\ tramp_prefix = NULL)
       => EndsWith(accepted(writes), scenario_B_directives \o S_newline)

\* Scenario B went out, and so did an argument with a letter after the '+'.
C10_Witness ==
  /\ first_stream_sent
  /\ ~eval
  /\ world.argv = <<A_position, A_notes>>
  /\ tramp_prefix = NULL
  /\ EndsWith(accepted(writes), scenario_B_directives \o S_newline)

----------------------------------------------------------------------------
(* Properties of local-socket resolution *)

ExitFailure == [how |-> "exit", code |-> EXIT_FAILURE]

\* Entry i of the log is the stat of the synthesized path, which found a
\* file of another owner, while LOGNAME or USER names a user whose uid is
\* not the effective uid.
wrong_owner_under_su(i) ==
  /\ attempts[i].op = "stat"
  /\ attempts[i].path = "tmp_euid"
  /\ attempts[i].found = "other"
  /\ world.pw = "other"

\* C11 (as amended): when the synthesized local socket path is owned by a
\* uid other than the effective uid and LOGNAME (or USER) resolves to a uid
\* other than the effective uid, the next thing local-socket resolution does
\* is a second stat, of the socket path under that uid's directory, unless
\* that path is too long for the socket address: then the process exits with
\* failure without the second stat.
C11_SecondStat ==
  \A i \in 1..Len(attempts) :
    wrong_owner_under_su(i) =>
      /\ i < Len(attempts)
      /\ IF world.fits["tmp_pwuid"]
           THEN attempts[i + 1] = stat_entry(world, "tmp_pwuid")
           ELSE /\ attempts[i + 1].op = "too long"
                /\ attempts[i + 1].path = "tmp_pwuid"
                /\ i + 1 = Len(attempts)
                /\ ending = ExitFailure

\* The first stat found another owner, the second stat (under the uid of
\* LOGNAME) found another owner too, and resolution then reported failure.
C11_Witness ==
  /\ Len(attempts) = 3
  /\ wrong_owner_under_su(2)
  /\ attempts[3] = stat_entry(world, "tmp_pwuid")
  /\ attempts[3].status = 1
  /\ ending = ExitFailure

\* C11 (as stated): in that situation a second stat is always performed
\* before failure is reported.
C11_AlwaysSecondStat ==
  \A i \in 1..Len(attempts) :
    wrong_owner_under_su(i) =>
      /\ i < Len(attempts)
      /\ attempts[i + 1].op = "stat"
      /\ attempts[i + 1].path = "tmp_pwuid"

\* C12: local-socket resolution connects only to a path whose file the
\* stat just before found owned by the effective uid, whether the path is
\* the explicit one, the synthesized one, or the one under the uid of
\* LOGNAME; so a connected local socket is one whose file had that owner.
C12_OwnedByEuid ==
  \A i \in 1..Len(attempts) :
    (attempts[i].op = "connect" /\ attempts[i].kind = "local") =>
      /\ i > 1
      /\ attempts[i - 1].op = "stat"
      /\ attempts[i - 1].path = attempts[i].path
      /\ attempts[i - 1].found = "euid"

\* The synthesized path had another owner, the path under the uid of
\* LOGNAME was owned by the effective uid, and the socket connected there.
C12_Witness ==
  /\ Len(attempts) = 4
  /\ wrong_owner_under_su(2)
  /\ attempts[3].found = "euid"
  /\ attempts[4] = [op |-> "connect", kind |-> "local", path |-> "tmp_pwuid",
                    ok |-> TRUE]
  /\ emacs_socket \in fds
  /\ pc = "main"

----------------------------------------------------------------------------
(* Properties of the socket's lifetime *)

\* The number of sockets the process has opened.
sockets_opened ==
  Cardinality({i \in 1..Len(attempts) :
                 attempts[i].op = "socket" /\ attempts[i].ok})

\* Resolution ended with a connected socket.
connected ==
  /\ attempts # <<>>
  /\ Last(attempts).op = "connect"
  /\ Last(attempts).ok

ended == ending.how \in {"return", "exit", "exec"}

\* C13: on every path by which the process ends after it opened and
\* connected its socket (the end of the receive loop, a failed send, no
\* working directory, no terminal), the socket has been closed when the
\* process returns, exits or executes the alternate editor.
C13_ClosedOnEveryEnding ==
  (ended /\ sockets_opened = 1 /\ connected) => fds = {}

\* C14: at every point of execution at most one socket is open.
C14_AtMostOneSocket == Cardinality(fds) <= 1

\* C15: once a retry transition has been taken and the next command stream
\* has gone out, that stream starts again from the -dir directive.
C15_FullStreamResent ==
  (retried /\ stream_sent /\ writes # <<>>) =>
    HasWord(after_auth(Last(writes).data), Keyword(S_dir))

----------------------------------------------------------------------------
(* Properties of the authentication preamble *)

\* Resolution connected a TCP socket.
tcp_connected ==
  \E i \in 1..Len(attempts) :
    attempts[i].kind = "tcp" /\ attempts[i].op = "connect" /\ attempts[i].ok

\* The first bytes handed to send (), or, before any send (), the bytes
\* waiting in the buffer.
first_bytes == IF writes # <<>> THEN writes[1].data ELSE send_buffer

\* C16: on a TCP endpoint the first bytes written to the socket are
\* "-auth ", the 64-byte token and a space, ahead of every directive of
\* every command stream, also when the connection is made after the daemon
\* was started.
C16_AuthFirst ==
  tcp_connected =>
    /\ Len(world.token) = AUTH_KEY_LENGTH
    /\ strprefix(S_auth \o world.token \o S_space, first_bytes)
    /\ \A i \in 2..Len(writes) : ~Contains(writes[i].data, S_auth)

\* The first TCP attempt failed, the daemon was started, the second attempt
\* connected, and the first command stream went out behind the preamble.
C16_Witness ==
  /\ alternate_editor = <<>>
  /\ Len(attempts) > 3
  /\ tcp_connected
  /\ pc = "recv"
  /\ Len(writes) = 1
  /\ strprefix(S_auth \o world.token \o S_space \o S_dir, writes[1].data)

----------------------------------------------------------------------------
(* Properties of unknown messages *)

\* The exit status and the retry state as entry e of the log recorded them.
retry_state(e) == <<e.exit_status, e.display, e.alt_display, e.tty, e.nowait>>

\* C19: a received line whose keyword is none of the known ones is reported
\* on standard output as an unknown message, and dispatching it leaves the
\* exit status, the display, the alternate display, the tty flag and the
\* no-wait flag as they were: the next line finds them unchanged, and after
\* the last line of a chunk the loop receives again if the exit status was
\* success.
C19_UnknownTolerated ==
  \A i \in 1..Len(dispatched) :
    dispatched[i].kind = "unknown" =>
      /\ Contains(stdout, T_unknown \o dispatched[i].line \o <<LF>>)
      /\ i < Len(dispatched) =>
           retry_state(dispatched[i + 1]) = retry_state(dispatched[i])
      /\ i = Len(dispatched) =>
           /\ <<display, alt_display, tty, nowait>>
                = <<dispatched[i].display, dispatched[i].alt_display,
                    dispatched[i].tty, dispatched[i].nowait>>
           /\ Last(recvs).rl > 0 => exit_status = dispatched[i].exit_status
           /\ (Last(recvs).rl > 0
               /\ dispatched[i].exit_status = EXIT_SUCCESS) => pc = "recv"

\* An unknown message was reported and the line after it, in the same
\* chunk, was dispatched; the loop then went on to receive.
C19_Witness ==
  /\ Len(dispatched) = 2
  /\ dispatched[1].kind = "unknown"
  /\ dispatched[1].line = SubSeq(H_unknown, 1, Len(H_unknown) - 1)
  /\ dispatched[2].kind = "emacs-pid"
  /\ Len(recvs) = 1
  /\ exit_status = EXIT_SUCCESS
  /\ pc = "recv"

----------------------------------------------------------------------------
(* Properties of the daemon start *)

\* The positions of the log where the process forked to start the daemon.
forks == {i \in 1..Len(attempts) : attempts[i].op = "fork"}

\* The attempts of the first set_socket call, and those made after the fork.
first_resolution ==
  IF forks = {} THEN attempts
  ELSE SubSeq(attempts, 1, (CHOOSE i \in forks : TRUE) - 1)

second_resolution ==
  IF forks = {} THEN <<>>
  ELSE SubSeq(attempts, (CHOOSE i \in forks : TRUE) + 1, Len(attempts))

\* The set_socket call that made the attempts of log found no endpoint:
\* its last attempt could not create a socket, did not find a socket file
\* owned by the user, could not connect, or found no server file.
unavailable(log) ==
  /\ log # <<>>
  /\ \/ Last(log).op = "socket" /\ ~Last(log).ok
     \/ Last(log).op = "stat" /\ Last(log).status # 0
     \/ Last(log).op = "connect" /\ ~Last(log).ok
     \/ Last(log).op = "fopen" /\ Last(log).cfg = "missing"

\* The attempts of log were made by one set_socket call.
one_call(log) ==
  /\ Cardinality({i \in 1..Len(log) : log[i].op = "socket"
                                      /\ log[i].kind = "local"}) <= 1
  /\ Cardinality({i \in 1..Len(log) : log[i].op = "fopen"}) <= 1

\* C20: if the first endpoint resolution finds no endpoint and the
\* alternate editor is the empty string, the process forks to start the
\* daemon; once the child has exited with status 0, resolution is attempted
\* again by one set_socket call, and if that finds no endpoint the process
\* exits with failure.  There is one fork at most, and none when the
\* alternate editor is absent or not empty.
C20_DaemonRetryOnce ==
  /\ Cardinality(forks) <= 1
  /\ forks # {} => alternate_editor = <<>>
  /\ (pc # "start" /\ alternate_editor = <<>>
      /\ unavailable(first_resolution)) => (pc = "daemon" \/ forks # {})
  /\ \A i \in forks :
       IF attempts[i].side = "parent" /\ attempts[i].ok
         THEN /\ second_resolution # <<>>
              /\ one_call(second_resolution)
              /\ unavailable(second_resolution) => ending = ExitFailure
         ELSE second_resolution = <<>>

\* The daemon was started and reported ready, the second resolution found
\* no socket, and the process exited with failure.
C20_Witness ==
  /\ forks # {}
  /\ unavailable(first_resolution)
  /\ unavailable(second_resolution)
  /\ ending = ExitFailure

----------------------------------------------------------------------------
(* Properties of the signal handlers *)

\* C17: no signal handler reads or writes send_buffer or sblen, so a
\* handler that runs while a send_to_emacs call is in progress leaves the
\* array and the fill length as that call had them.
C17_HandlersLeaveBuffer ==
  [][(sig'.nsignals # sig.nsignals /\ sig.at # "idle") =>
       (sig'.arr = sig.arr /\ sig'.sblen = sig.sblen)]_vars

\* C18: whenever handle_sigtstp raises the signal again to stop the
\* process, the socket has accepted every byte of the -suspend notice.
C18_NoticeBeforeStop ==
  \A i \in 1..Len(sig.stops) : EndsWith(sig.stops[i].sent, S_suspend)

----------------------------------------------------------------------------
(* Properties of the byte stream *)

\* A send () took less than it was offered.
short_write(i) == 0 <= writes[i].sent /\ writes[i].sent < Len(writes[i].data)

\* C21: after any sequence of send_to_emacs calls and any pattern of
\* complete and short writes, the bytes the socket has accepted followed by
\* the contents of the buffer are the texts passed to send_to_emacs, in call
\* order, and the fill length is between 0 and the capacity of 4096 bytes.
\* The calls are those that returned: a send () that fails ends the process
\* inside the call.
C21_StreamIntegrity ==
  /\ pc = "send" => accepted(writes) \o send_buffer = calls.passed
  /\ 0 <= Len(send_buffer) /\ Len(send_buffer) <= SEND_BUFFER_SIZE

\* Three calls, the second of which filled the buffer: send () took all
\* but one byte of the 4096, and that byte waits in front of the third
\* call's text.
C21_Witness ==
  /\ pc = "send"
  /\ calls.n = 3
  /\ Len(writes) = 1
  /\ Len(writes[1].data) = SEND_BUFFER_SIZE
  /\ short_write(1)
  /\ send_buffer = <<"y">> \o F_dir
  /\ calls.passed = F_text \o F_big \o F_dir

\* C22: when send_to_emacs returns after a call whose text ends in a
\* newline, the buffer is empty.
C22_EmptyAfterNewline ==
  (/\ calls.n > 0 /\ pc = "send"
   /\ calls.data # <<>> /\ Last(calls.data) = LF)
  => send_buffer = <<>>

----------------------------------------------------------------------------
(* Properties of the receive loop *)

\* What a receive that dispatches nothing leaves alone.
sessionState == <<optVars, emacs_socket, send_buffer, skiplf, string, world,
                  writes, stderr, dispatched, attempts>>

\* C23: a receive that fails with EINTR is retried with no message
\* dispatched and no session state changed; a receive result of zero or
\* less (EINTR apart) ends the receive loop, main returns, and its status is
\* failure for a negative result and the exit status as it was for zero.
C23_ReceiveResults ==
  [][Len(recvs') = Len(recvs) + 1 =>
       LET r == Last(recvs')
       IN /\ (r.rl < 0 /\ r.errno = "EINTR") =>
               /\ pc' = "recv"
               /\ UNCHANGED <<sessionState, exit_status, stdout, fds, ending>>
          /\ (r.rl <= 0 /\ r.errno # "EINTR") =>
               /\ UNCHANGED sessionState
               /\ pc' = "exit"
               /\ ending'.how = "return"
               /\ exit_status' = IF r.rl < 0 THEN EXIT_FAILURE
                                  ELSE exit_status
               /\ ending'.code = exit_status']_vars

\* A receive was interrupted and made again, a message was dispatched, and
\* the next receive failed: main returned failure though no -error had come.
C23_Witness ==
  /\ Len(recvs) = 3
  /\ recvs[1].errno = "EINTR"
  /\ recvs[2].data = H_pid
  /\ recvs[3].rl < 0 /\ recvs[3].errno # "EINTR"
  /\ Len(dispatched) = 1
  /\ ~error_dispatched
  /\ ending = [how |-> "return", code |-> EXIT_FAILURE]

\* C24: within each received chunk only complete, newline-terminated lines
\* are dispatched; a trailing fragment without a newline is not dispatched.
C24_OnlyCompleteLines ==
  \A i \in 1..Len(dispatched) : dispatched[i].complete

\* The newline-terminated lines of a byte string, in order.
RECURSIVE CompleteLines(_, _)
CompleteLines(bytes, line) ==
  IF bytes = <<>> THEN <<>>
  ELSE IF Head(bytes) = LF
    THEN <<line>> \o CompleteLines(Tail(bytes), <<>>)
    ELSE CompleteLines(Tail(bytes), Append(line, Head(bytes)))

\* The lines dispatched so far that a newline ended, in dispatch order.
lines_dispatched ==
  LET done == SelectSeq(dispatched, LAMBDA e : e.complete)
  IN [i \in 1..Len(done) |-> done[i].line]

\* Every chunk received so far ended in a newline.
whole_lines_received ==
  \A i \in 1..Len(recvs) :
    recvs[i].data # <<>> => Last(recvs[i].data) = LF

\* C25: every newline-terminated line the host has sent is dispatched
\* exactly once and in arrival order, whatever precedes it in its chunk.
\* Read in its favour: for hosts whose chunks end at a line boundary.
C25_EveryLineOnce ==
  (whole_lines_received /\ ending.how # "undefined") =>
    lines_dispatched = CompleteLines(Received(recvs), <<>>)

----------------------------------------------------------------------------
(* Properties of the dispatch *)

\* The line begins with the keyword and the space that follows it.
StartsWith(line, keyword_space) ==
  /\ Len(keyword_space) <= Len(line)
  /\ \A k \in 1..Len(keyword_space) : line[k] = keyword_space[k]

\* The keywords of the host's messages, each with its space, and the case
\* of the dispatch each belongs to.
HostKeywords ==
  {<<M_emacs_pid, "emacs-pid">>,
   <<M_window_system_unsupported, "window-system-unsupported">>,
   <<M_print, "print">>, <<M_print_nonl, "print-nonl">>,
   <<M_error, "error">>, <<M_suspend, "suspend">>}

\* C26 (as amended): a line is dispatched to the case of a keyword exactly
\* when it begins with that keyword followed by a space, and to the
\* unknown-message case exactly when it begins with none of them; a line
\* that is exactly -window-system-unsupported or -suspend, with no space
\* after the keyword, is reported as an unknown message.
C26_KeywordThenSpace ==
  \A i \in 1..Len(dispatched) :
    LET e == dispatched[i]
    IN /\ \A k \in HostKeywords : e.kind = k[2] <=> StartsWith(e.line, k[1])
       /\ e.kind = "unknown"
          <=> \A k \in HostKeywords : ~StartsWith(e.line, k[1])
       /\ e.line \in {Keyword(M_window_system_unsupported),
                      Keyword(M_suspend)} => e.kind = "unknown"

\* "-suspend " was dispatched as a suspend request, and later the lines
\* "-suspend" and "-window-system-unsupported" as unknown messages.
C26_Witness ==
  /\ Len(dispatched) = 4
  /\ dispatched[1].kind = "suspend"
  /\ dispatched[1].line = M_suspend
  /\ dispatched[3].kind = "unknown"
  /\ dispatched[3].line = Keyword(M_suspend)
  /\ dispatched[4].kind = "unknown"
  /\ dispatched[4].line = Keyword(M_window_system_unsupported)
  /\ pc = "recv"

\* C26 (as stated): each message in the forms the wire protocol lists goes
\* to its own case and never to the unknown-message case; a line that is
\* exactly -window-system-unsupported triggers the retry and a line that is
\* exactly -suspend the suspend action.
C26_BareKeyword ==
  \A i \in 1..Len(dispatched) :
    /\ dispatched[i].line = Keyword(M_window_system_unsupported)
       => dispatched[i].kind = "window-system-unsupported"
    /\ dispatched[i].line = Keyword(M_suspend)
       => dispatched[i].kind = "suspend"

\* The cursor skip says that the text out is empty or ends in a newline.
cursor_agrees(skip, out) == skip <=> (out = <<>> \/ Last(out) = LF)

\* C27: after any sequence of dispatched -print, -print-nonl, -error,
\* -suspend and unknown messages, skiplf is true exactly when the text
\* emitted so far is empty or ends in a newline, messages with an empty text
\* included.  Read in its favour: while nothing has gone to standard error,
\* so that the text emitted is the text on standard output; the cursor is
\* looked at where each message finds it and where the loop receives again.
C27_CursorTracksText ==
  /\ \A i \in 1..Len(dispatched) :
       dispatched[i].err = <<>>
       => cursor_agrees(dispatched[i].skiplf, dispatched[i].out)
  /\ (pc = "recv" /\ stderr = <<>>) => cursor_agrees(skiplf, stdout)

----------------------------------------------------------------------------
(* Properties of the server file *)

\* Entry i of the log is the opening of a server file in state cfg.
server_file_found(i, cfg) ==
  attempts[i].op = "fopen" /\ attempts[i].cfg \in cfg

\* C28 (as amended): during TCP resolution a first line without ':' and a
\* token block shorter than 64 bytes each end the process at once with
\* failure, whatever alternate editor is set.  A server file that cannot be
\* opened is an endpoint that is not available: resolution returns, and the
\* process executes the alternate editor, starts the daemon (alternate
\* editor empty), or exits with failure when there is neither.
C28_MalformedIsFatal ==
  \A i \in 1..Len(attempts) :
    /\ server_file_found(i, {"no_colon", "short_token"}) =>
         i = Len(attempts) /\ ending = ExitFailure
    /\ (server_file_found(i, {"missing"}) /\ i = Len(attempts)) =>
         IF forks # {} \/ alternate_editor = NULL THEN ending = ExitFailure
         ELSE IF start_daemon_if_needed
           THEN pc = "daemon" /\ ending = Running
         ELSE ending = fail_ending

\* The server file named on the command line did not exist, and the
\* alternate editor was executed.
C28_Witness ==
  /\ server_file = W_server_file
  /\ Len(attempts) = 1
  /\ server_file_found(1, {"missing"})
  /\ alternate_editor = W_editor
  /\ ending = [how |-> "exec", code |-> 0]

\* C28 (as stated): a missing server file, a first line without ':' and a
\* short token block each end the process at once with failure.
C28_AllFatal ==
  \A i \in 1..Len(attempts) :
    server_file_found(i, {"missing", "no_colon", "short_token"}) =>
      i = Len(attempts) /\ ending = ExitFailure

----------------------------------------------------------------------------
(* Properties of the second lookup *)

\* Entry i of the log is the first check of the synthesized path, and it
\* did not find a socket file owned by the effective uid.
first_check_failed(i) ==
  /\ attempts[i].op = "stat"
  /\ attempts[i].path = "tmp_euid"
  /\ attempts[i].status # 0

\* Entry i of the log belongs to the lookup under the directory of the uid
\* that LOGNAME or USER names.
second_lookup(i) ==
  /\ attempts[i].op \in {"stat", "too long"}
  /\ attempts[i].path = "tmp_pwuid"

\* C29 (as amended): the lookup under the uid resolved from LOGNAME or USER
\* is attempted exactly when the first check of the synthesized path
\* reports any failure, wrong owner or a path that cannot be stat'ed, and
\* that uid differs from the effective uid.
C29_SecondLookupOnAnyFailure ==
  \A i \in 1..Len(attempts) :
    /\ second_lookup(i) =>
         i > 1 /\ first_check_failed(i - 1) /\ world.pw = "other"
    /\ (first_check_failed(i) /\ world.pw = "other") =>
         i < Len(attempts) /\ second_lookup(i + 1)

\* The synthesized path did not exist, the path under the uid of LOGNAME
\* held a socket of the effective uid, and the process connected to it.
C29_Witness ==
  /\ Len(attempts) = 4
  /\ attempts[2] = [op |-> "stat", kind |-> "local", path |-> "tmp_euid",
                    found |-> "ENOENT", status |-> 2]
  /\ attempts[3] = stat_entry(world, "tmp_pwuid")
  /\ attempts[4].op = "connect" /\ attempts[4].path = "tmp_pwuid"
  /\ attempts[4].ok
  /\ pc = "main"

\* C29 (as stated): the second lookup is attempted only when the first
\* check reports wrong owner, never when the path cannot be stat'ed.
C29_OnlyOnWrongOwner ==
  \A i \in 1..Len(attempts) :
    second_lookup(i) => i > 1 /\ attempts[i - 1].status = 1

----------------------------------------------------------------------------
(* Properties of the command stream *)

\* The place of a directive in the command stream, 0 for any other word.
Rank(word) ==
  CASE word = Keyword(S_env) -> 1
    [] word = Keyword(S_dir) -> 2
    [] word = Keyword(S_nowait) -> 3
    [] word = Keyword(S_current_frame) -> 4
    [] word = Keyword(S_display) -> 5
    [] word = Keyword(S_parent_id) -> 6
    [] word = Keyword(S_frame_parameters) -> 7
    [] word = Keyword(S_tty) -> 8
    [] word = Keyword(S_window_system) -> 9
    [] word \in {Keyword(S_eval), Keyword(S_file), Keyword(S_position)} -> 10
    [] OTHER -> 0

\* The directives of a stream, in the order they were sent.
Directives(stream) ==
  SelectSeq(Words(stream, <<>>), LAMBDA word : Rank(word) > 0)

InOrder(ds) ==
  \A i \in 1..Len(ds) : \A j \in i..Len(ds) : Rank(ds[i]) <= Rank(ds[j])

\* The command stream that went out last, without the -auth preamble.
last_stream == after_auth(Last(writes).data)

\* C30: in every command stream of every attempt -current-frame is present
\* exactly when no new frame is requested, -env and -frame-parameters appear
\* only when a new frame is requested, -window-system is present exactly
\* when a new frame is requested and terminal mode is off, so -current-frame
\* never comes with -window-system, -frame-parameters or -env; and the
\* directives present follow the order -env, -dir, -nowait, -current-frame,
\* -display, -parent-id, -frame-parameters, -tty, -window-system, then
\* -eval, -file and -position.
C30_StreamShape ==
  (stream_sent /\ writes # <<>>) =>
    LET ds == Directives(last_stream)
        has(directive) == \E i \in 1..Len(ds) : ds[i] = Keyword(directive)
    IN /\ has(S_current_frame) <=> ~create_frame
       /\ has(S_env) => create_frame
       /\ has(S_frame_parameters) => create_frame
       /\ has(S_window_system) <=> (create_frame /\ ~tty)
       /\ has(S_current_frame) =>
            ~has(S_window_system) /\ ~has(S_frame_parameters) /\ ~has(S_env)
       /\ InOrder(ds)

\* The stream of a session that asks for a frame on a display, with a
\* parent window, frame parameters and a terminal at hand: every directive
\* of a new frame is there, in order, and -current-frame is not.
C30_Witness ==
  /\ first_stream_sent
  /\ create_frame /\ ~tty
  /\ Directives(last_stream)
       = <<Keyword(S_env), Keyword(S_env), Keyword(S_dir), Keyword(S_display),
           Keyword(S_parent_id), Keyword(S_frame_parameters), Keyword(S_tty),
           Keyword(S_window_system), Keyword(S_file)>>

----------------------------------------------------------------------------
(* Properties of interactive evaluation *)

\* The words that follow the -eval words of a stream, in order.
RECURSIVE eval_values(_)
eval_values(ws) ==
  IF Len(ws) < 2 THEN <<>>
  ELSE IF Head(ws) = Keyword(S_eval)
    THEN <<ws[2]>> \o eval_values(Tail(Tail(ws)))
    ELSE eval_values(Tail(ws))

\* The command stream is sent in interactive evaluation mode.
interactive_send ==
  pc = "retry" /\ pc' = "recv" /\ eval /\ world.argv = <<>>

\* C31: in interactive evaluation mode (eval active, no positional
\* arguments) each line read from standard input produces exactly one
\* "-eval <enc(line)>" directive, and consecutive directives are separated
\* by a single space, so that the words of the stream that follow a -eval
\* word are the encoded lines, one per line and in order.
C31_OneEvalPerLine ==
  [][interactive_send =>
       eval_values(Words(after_auth(Last(writes').data), <<>>))
         = [i \in 1..Len(world.stdin) |-> quote_argument(world.stdin[i])]
    ]_vars

----------------------------------------------------------------------------
(* Properties of handle_sigcont *)

\* The signals a run of handle_sigcont raised on the client's group.
stop_raised(e) == e.kill = <<[pid |-> -W_pgrp, signal |-> "SIGTTIN"]>>

\* The run passed the -resume notice to send_to_emacs, and when it
\* returned a send () had offered the notice to the socket.
resume_sent(e) ==
  /\ e.notice = S_resume
  /\ e.returned =>
       (e.wrote # <<>> /\ EndsWith(Last(e.wrote).data, S_resume))

nothing_sent(e) == e.notice = <<>> /\ e.wrote = <<>>

\* C32 (as amended): when the continue signal is handled, if the client's
\* process group is the terminal's foreground group, the -resume notice
\* line is passed to the transport and no stop signal is raised; otherwise,
\* if the terminal's foreground group could be read (tcgetpgrp did not
\* fail) and terminal mode is on, a stop signal is raised on the client's
\* process group and no -resume is sent; otherwise nothing is sent or
\* raised.  Whenever the handler returns it is installed again and errno
\* has its pre-handler value.
C32_ContinueHandled ==
  \A i \in 1..Len(sig.handled) :
    LET e == sig.handled[i]
    IN /\ e.tcpgrp = W_pgrp => (resume_sent(e) /\ e.kill = <<>>)
       /\ (e.tcpgrp # W_pgrp /\ 0 <= e.tcpgrp /\ tty)
            => (stop_raised(e) /\ nothing_sent(e))
       /\ (e.tcpgrp # W_pgrp /\ ~(0 <= e.tcpgrp /\ tty))
            => (e.kill = <<>> /\ nothing_sent(e))
       /\ e.returned => (e.after = e.before /\ "SIGCONT" \in sig.armed)

\* The three cases in a run each: in terminal mode with standard output
\* not on the terminal, tcgetpgrp fails and leaves its error number, the
\* handler raises nothing, returns, and errno is as before.
C32_Witness ==
  /\ tty
  /\ Len(sig.handled) = 1
  /\ LET e == sig.handled[1]
     IN /\ e.tcpgrp = -1
        /\ e.inside = ENOTTY /\ e.before = 0 /\ sig.errno = 0
        /\ e.returned /\ e.kill = <<>> /\ nothing_sent(e)
        /\ "SIGCONT" \in sig.armed

\* C32 (as stated): if the client's process group is the terminal's
\* foreground group, -resume is sent and no stop signal is raised;
\* otherwise, if terminal mode is on, a stop signal is raised on the
\* client's process group and no -resume is sent; otherwise nothing is sent
\* or raised.
C32_StopWheneverBackground ==
  \A i \in 1..Len(sig.handled) :
    LET e == sig.handled[i]
    IN /\ e.tcpgrp = W_pgrp => (resume_sent(e) /\ e.kill = <<>>)
       /\ (e.tcpgrp # W_pgrp /\ tty) => (stop_raised(e) /\ nothing_sent(e))
       /\ (e.tcpgrp # W_pgrp /\ ~tty) => (e.kill = <<>> /\ nothing_sent(e))

----------------------------------------------------------------------------
(* Properties of the lines on the socket *)

\* A notice without its newline.
notice_text(notice) == SubSeq(notice, 1, Len(notice) - 1)

\* The newline-terminated lines the socket has accepted.
lines_written == CompleteLines(accepted(writes), <<>>)

\* Every signal handled was a continue signal that arrived between two
\* send_to_emacs calls of main.
handlers_between_calls ==
  /\ Len(sig.handled) = sig.nsignals
  /\ \A i \in 1..Len(sig.handled) : sig.handled[i].at = "idle"

\* C33: every newline-terminated line the client writes to the socket is
\* either one complete command stream or exactly one "-resume " or
\* "-suspend " notice: a line that holds the text of a notice is that
\* notice and nothing else, so a notice sent by a handler that runs after
\* the handlers are installed and before the command stream's final newline
\* is never spliced into the partially built command line.  It is stated
\* here for handlers that run between two calls of main only.
C33_NoticeOnItsOwnLine ==
  handlers_between_calls =>
    \A i \in 1..Len(lines_written) :
      \A notice \in {S_resume, S_suspend} :
        Contains(lines_written[i], notice_text(notice))
          => lines_written[i] = notice_text(notice)

----------------------------------------------------------------------------
(* Properties of the retry transitions *)

\* The retry transitions of the session, by what they did: switch to the
\* alternate display, or force terminal mode.
retry_transitions ==
  {i \in 1..Len(dispatched) :
     dispatched[i].kind = "window-system-unsupported"}

switched_display ==
  {i \in retry_transitions : dispatched[i].alt_display # NULL}

forced_terminal ==
  {i \in retry_transitions : dispatched[i].alt_display = NULL}

\* C34: in any session the number of retry transitions is bounded, however
\* many -window-system-unsupported messages the host sends: at most one
\* transition switches to the alternate display and at most one forces
\* terminal mode, and no command stream is sent again after these.
C34_RetriesBounded ==
  stream_sent =>
    /\ Cardinality(switched_display) <= 1
    /\ Cardinality(forced_terminal) <= 1

----------------------------------------------------------------------------
(* Properties of decoding in place *)

\* The lines of a chunk as the host sent it, a last line without newline
\* included.
lines_of(chunk) == CompleteLines(chunk \o <<LF>>, <<>>)

\* The line is one the host sent.
was_received(line) ==
  \E j \in 1..Len(recvs) :
    LET ls == lines_of(recvs[j].data)
    IN \E k \in 1..Len(ls) : ls[k] = line

\* C35: decoding the text of one received message reads and writes only
\* the characters of that message up to its terminator, for every input,
\* text that ends in a lone '&' included, and leaves the next message of
\* the same chunk untouched: every message the loop dispatches is a line
\* as the host sent it.
C35_DecodingStaysInMessage ==
  ending.how # "undefined" =>
    \A i \in 1..Len(dispatched) : was_received(dispatched[i].line)

----------------------------------------------------------------------------
(* Properties of the socket handle *)

\* main is at the construction of the command stream: before the -dir
\* directive, or at the retry label with -dir in the buffer.
building_stream == pc \in {"main", "retry"}

\* C36: the command stream is built and sent only on a successfully
\* connected socket: no path reaches the construction of the -dir
\* directive while the socket handle is invalid, the child branch of the
\* daemon start when executing the host program fails included.
C36_ConnectedBeforeStream ==
  building_stream => emacs_socket # INVALID_SOCKET

====
